---- MODULE Spec2Model ----
(***************************************************************************)
(* Model of the PlayWithBilibili BetterNCM plugin (src/playwithbilio.js):  *)
(* the search-and-ranking pipeline (parseSearchResults, filterByTitle,     *)
(* filterByDuration, filterByPlayCount, searchVideoWithCache), the cache   *)
(* urlMap, and the playback controller (reloadVideo, switchUrl,            *)
(* initBiliPlayer, resetPlayerState and the PlayState / PlayProgress       *)
(* handlers) running on one JavaScript event loop; the logger of that file *)
(* (shouldLog), and the LogManager class of the revision that buffered log *)
(* entries and flushed them to a file (src/unnamed/part_001).              *)
(*                                                                         *)
(* JavaScript strings are sequences of characters, a character being a     *)
(* one-character string or, outside ASCII, its code point ("U+3010").      *)
(* Each action                                                             *)
(* is one run-to-completion slice of the event loop: the code between two  *)
(* awaits that really suspend (a fetch, a delay, a waitForFunction poll,   *)
(* the iframe's load event).                                               *)
(***************************************************************************)
EXTENDS Integers, Sequences, FiniteSets, TLC

(***************************************************************************)
(* Bounds of the model.                                                    *)
(***************************************************************************)
\* Number of reloadVideo executions (debounced Load events) in one run.
MaxLoads == 2

\* Log entries appended in a run
MaxEntries == 3

\* Calls of flushLogs in a run
MaxFlushes == 3

(***************************************************************************)
(* JavaScript values.                                                      *)
(***************************************************************************)
\* undefined / null
UNDEF == "undefined"
\* JavaScript numbers that may be NaN (the results of parseInt and what is
\* computed from them): [nan |-> TRUE] is Number.NaN.
Num(v) == [nan |-> FALSE, v |-> v]

NaN == [nan |-> TRUE, v |-> 0]

\* JavaScript truthiness of a bvid value (string, undefined or null).
Truthy(v) == v # UNDEF /\ v # ""

Max(a, b) == IF a >= b THEN a ELSE b

Abs(a) == IF a >= 0 THEN a ELSE 0 - a

(***************************************************************************)
(* Strings.                                                                *)
(***************************************************************************)
UpperChars == <<"A","B","C","D","E","F","G","H","I","J","K","L","M",
                "N","O","P","Q","R","S","T","U","V","W","X","Y","Z">>

LowerChars == <<"a","b","c","d","e","f","g","h","i","j","k","l","m",
                "n","o","p","q","r","s","t","u","v","w","x","y","z">>

LowerChar(c) ==
    IF \E i \in 1..Len(UpperChars) : UpperChars[i] = c
    THEN LowerChars[CHOOSE i \in 1..Len(UpperChars) : UpperChars[i] = c]
    ELSE c

\* String.prototype.toLowerCase
toLowerCase(s) == [i \in 1..Len(s) |-> LowerChar(s[i])]

\* The characters \s matches (of those the model's strings use).
IsSpace(c) == c \in {" ", "\t", "\n"}

\* s from position i on (1-based), empty when i > Len(s)
Drop(s, i) == IF i > Len(s) THEN <<>> ELSE SubSeq(s, i, Len(s))

\* Whether p occurs in s starting at position i
MatchAt(s, i, p) ==
    /\ i >= 1
    /\ i + Len(p) - 1 <= Len(s)
    /\ \A k \in 1..Len(p) : s[i + k - 1] = p[k]

\* String.prototype.includes
includes(s, p) == \E i \in 1..(Len(s) + 1) : MatchAt(s, i, p)

\* String.prototype.trim
trim(s) ==
    IF \A i \in 1..Len(s) : IsSpace(s[i])
    THEN <<>>
    ELSE LET first == CHOOSE i \in 1..Len(s) :
                          ~IsSpace(s[i]) /\ \A k \in 1..(i - 1) : IsSpace(s[k])
             last  == CHOOSE i \in 1..Len(s) :
                          ~IsSpace(s[i]) /\ \A k \in (i + 1)..Len(s) : IsSpace(s[k])
         IN  SubSeq(s, first, last)

\* s.replace(p, '') with a string pattern: only the first occurrence goes.
replaceFirst(s, p) ==
    IF ~includes(s, p)
    THEN s
    ELSE LET i == CHOOSE k \in 1..(Len(s) + 1) :
                      MatchAt(s, k, p) /\ \A m \in 1..(k - 1) : ~MatchAt(s, m, p)
         IN  SubSeq(s, 1, i - 1) \o Drop(s, i + Len(p))

\* s.split(sep) for a one-character separator: the segments, in order.
RECURSIVE split(_, _)
split(s, sep) ==
    IF \A i \in 1..Len(s) : s[i] # sep
    THEN <<s>>
    ELSE LET i == CHOOSE k \in 1..Len(s) :
                      s[k] = sep /\ \A m \in 1..(k - 1) : s[m] # sep
         IN  <<SubSeq(s, 1, i - 1)>> \o split(Drop(s, i + 1), sep)

(***************************************************************************)
(* parseInt                                                                *)
(***************************************************************************)
Digits == <<"0","1","2","3","4","5","6","7","8","9">>

IsDigit(c) == \E i \in 1..10 : Digits[i] = c

DigitVal(c) == (CHOOSE i \in 1..10 : Digits[i] = c) - 1

\* Value of the longest prefix of digits of s, acc the value read so far.
RECURSIVE digitsValue(_, _)
digitsValue(s, acc) ==
    IF s = <<>> \/ ~IsDigit(s[1])
    THEN acc
    ELSE digitsValue(Tail(s), acc * 10 + DigitVal(s[1]))

\* parseInt(s) in radix 10: leading white space skipped, an optional sign,
\* then the longest run of digits; NaN when there is none.
RECURSIVE parseInt(_)
parseInt(s) ==
    IF s # <<>> /\ IsSpace(s[1])
    THEN parseInt(Tail(s))
    ELSE LET neg  == s # <<>> /\ s[1] = "-"
             body == IF s # <<>> /\ s[1] \in {"-", "+"} THEN Tail(s) ELSE s
         IN  IF body = <<>> \/ ~IsDigit(body[1])
             THEN NaN
             ELSE IF neg THEN Num(0 - digitsValue(body, 0)) ELSE Num(digitsValue(body, 0))

\* parseInt(x || 0): the empty segment is falsy, and parseInt(0) is 0.
parseIntOrZero(x) == IF x = <<>> THEN Num(0) ELSE parseInt(x)

\* Arithmetic that propagates NaN.
NumAdd(a, b) == IF a.nan \/ b.nan THEN NaN ELSE Num(a.v + b.v)

\* a * k for a constant k
NumMul(a, k) == IF a.nan THEN NaN ELSE Num(a.v * k)

\* Math.floor(a / k) for a constant k > 0
FloorDiv(a, k) == IF a.nan THEN NaN ELSE Num(a.v \div k)

\* a === k and Math.abs(a - k) < tol for a number k: false when a is NaN.
NumEq(a, k) == ~a.nan /\ a.v = k

\* A tolerance that includes the bound
NumWithinOrAt(a, k, tol) == ~a.nan /\ Abs(a.v - k) <= tol

NumWithin(a, k, tol) == ~a.nan /\ Abs(a.v - k) < tol

(***************************************************************************)
(* Regular-expression replacements used by the pipeline.                   *)
(***************************************************************************)
\* Index of the first pattern of pats that occurs at the head of s, 0 if none.
FirstMatch(s, pats) ==
    IF \E k \in 1..Len(pats) : MatchAt(s, 1, pats[k])
    THEN CHOOSE k \in 1..Len(pats) :
             MatchAt(s, 1, pats[k]) /\ \A m \in 1..(k - 1) : ~MatchAt(s, 1, pats[m])
    ELSE 0

\* s.replace(/p1|p2|.../g, '') for literal alternatives p1, p2, ...: scanning
\* from the left, the first alternative that matches at a position is removed.
RECURSIVE removeAll(_, _)
removeAll(s, pats) ==
    IF s = <<>>
    THEN <<>>
    ELSE LET k == FirstMatch(s, pats)
         IN  IF k # 0 /\ Len(pats[k]) > 0
             THEN removeAll(Drop(s, Len(pats[k]) + 1), pats)
             ELSE <<s[1]>> \o removeAll(Tail(s), pats)

\* End of the match of /<open>.*?<close>/ at the head of s, 0 if it does not
\* match: the first closer after the opener, with no line break in between.
BracketEnd(s, pair) ==
    IF s # <<>> /\ s[1] = pair[1] /\ \E j \in 2..Len(s) : s[j] = pair[2]
    THEN LET j == CHOOSE k \in 2..Len(s) :
                      s[k] = pair[2] /\ \A m \in 2..(k - 1) : s[m] # pair[2]
         IN  IF \A m \in 2..(j - 1) : s[m] # "\n" THEN j ELSE 0
    ELSE 0

\* s.replace(/<o1>.*?<c1>|<o2>.*?<c2>|.../g, ''): brackets and their contents.
RECURSIVE stripBrackets(_, _)
stripBrackets(s, pairs) ==
    IF s = <<>>
    THEN <<>>
    ELSE IF \E k \in 1..Len(pairs) : BracketEnd(s, pairs[k]) # 0
         THEN LET k == CHOOSE i \in 1..Len(pairs) :
                           /\ BracketEnd(s, pairs[i]) # 0
                           /\ \A m \in 1..(i - 1) : BracketEnd(s, pairs[m]) = 0
              IN  stripBrackets(Drop(s, BracketEnd(s, pairs[k]) + 1), pairs)
         ELSE <<s[1]>> \o stripBrackets(Tail(s), pairs)

\* s.replace(/[<class>]+/g, ' '): every run of characters of the class
\* becomes one space.
RECURSIVE collapseRuns(_, _, _)
collapseRuns(s, class, inRun) ==
    IF s = <<>>
    THEN <<>>
    ELSE IF s[1] \in class
         THEN (IF inRun THEN <<>> ELSE <<" ">>) \o collapseRuns(Tail(s), class, TRUE)
         ELSE <<s[1]>> \o collapseRuns(Tail(s), class, FALSE)

\* The bracket pairs of calculateSimilarity's first replace.  The CJK brackets
\* are written by code point: U+3010 U+3011 (lenticular), U+300C U+300D
\* (corner), U+300E U+300F (white corner).
TitleBrackets == << <<"U+3010","U+3011">>, <<"[","]">>, <<"(",")">>,
                    <<"U+300C","U+300D">>, <<"U+300E","U+300F">> >>

\* The bracket pairs of cleanSongName's replace: the same, and { }.
SongBrackets == << <<"U+3010","U+3011">>, <<"[","]">>, <<"{","}">>, <<"(",")">>,
                   <<"U+300C","U+300D">>, <<"U+300E","U+300F">> >>

\* The alternatives of calculateSimilarity's second replace, in order, on
\* the lower-cased title: the four characters U+5B98 U+65B9 U+6295 U+7A3F
\* ("official upload"), official, mv, pv, feat\.?, ft\.?; the optional dot is
\* greedy, so the dotted form is tried first.
MarketingTokens == << <<"U+5B98","U+65B9","U+6295","U+7A3F">>,
                      <<"o","f","f","i","c","i","a","l">>,
                      <<"m","v">>, <<"p","v">>,
                      <<"f","e","a","t",".">>, <<"f","e","a","t">>,
                      <<"f","t",".">>, <<"f","t">> >>

\* [\s\-\|\/]
SeparatorChars == {" ", "\t", "\n", "-", "|", "/"}

WhiteSpaceChars == {" ", "\t", "\n"}

\* /<em class="keyword">|<\/em>/
EmOpen == <<"<","e","m"," ","c","l","a","s","s","=","\"","k","e","y","w","o","r","d","\"",">">>

EmClose == <<"<","/","e","m",">">>

(***************************************************************************)
(* cleanSongName                                                           *)
(***************************************************************************)
cleanSongName(songName) ==
    IF songName = UNDEF \/ songName = <<>>
    THEN <<>>
    ELSE trim(collapseRuns(stripBrackets(songName, SongBrackets), WhiteSpaceChars, FALSE))

(***************************************************************************)
(* Similarity scores are JavaScript numbers in [0,1]; the model keeps them *)
(* as exact fractions n/d with d > 0.                                      *)
(***************************************************************************)
Rat(n, d) == [n |-> n, d |-> d]

RatGE(a, b) == a.n * b.d >= b.n * a.d

RatGT(a, b) == a.n * b.d > b.n * a.d

RatMax(a, b) == IF RatGE(a, b) THEN a ELSE b

RatMin(a, b) == IF RatGE(a, b) THEN b ELSE a

\* (a + b) / 2
RatAvg(a, b) == Rat(a.n * b.d + b.n * a.d, 2 * a.d * b.d)

\* One more row of the longest-common-subsequence table: prev is row i-1 and
\* cur the part of row i filled so far (index j+1 holds dp[.][j]).
RECURSIVE fillRow(_, _, _, _)
fillRow(prev, c, s2, cur) ==
    IF Len(cur) = Len(s2) + 1
    THEN cur
    ELSE LET j == Len(cur)
         IN  fillRow(prev, c, s2,
                     Append(cur, IF c = s2[j]
                                 THEN prev[j] + 1
                                 ELSE Max(prev[j + 1], cur[j])))

RECURSIVE lcsRows(_, _, _, _)
lcsRows(s1, s2, i, prev) ==
    IF i > Len(s1)
    THEN prev[Len(s2) + 1]
    ELSE lcsRows(s1, s2, i + 1, fillRow(prev, s1[i], s2, <<0>>))

\* dp[m][n] of calculateBaseSimilarity
lcsLength(s1, s2) == lcsRows(s1, s2, 1, [j \in 1..(Len(s2) + 1) |-> 0])

\* A similarity that compares the strings as they are
calculateBaseSimilarityCaseSensitive(str1, str2) ==
    IF str1 = <<>> \/ str2 = <<>>
    THEN Rat(0, 1)
    ELSE Rat(lcsLength(str1, str2), Max(Len(str1), Len(str2)))

calculateBaseSimilarity(str1, str2) ==
    IF str1 = <<>> \/ str2 = <<>>
    THEN Rat(0, 1)
    ELSE LET s1 == toLowerCase(str1)
             s2 == toLowerCase(str2)
         IN  Rat(lcsLength(s1, s2), Max(Len(s1), Len(s2)))

\* A score that is raised to 0.8 whatever the title contains
songBoostAlways(finalSimilarity, containsSong) == RatMax(finalSimilarity, Rat(8, 10))

\* if (cleanTitle.includes(song)) finalSimilarity = Math.max(finalSimilarity, 0.8)
songBoost(finalSimilarity, containsSong) ==
    IF containsSong THEN RatMax(finalSimilarity, Rat(8, 10)) ELSE finalSimilarity

\* The cleanTitle of calculateSimilarity
cleanTitleOf(videoTitle) ==
    trim(collapseRuns(removeAll(stripBrackets(toLowerCase(videoTitle), TitleBrackets),
                                MarketingTokens),
                      SeparatorChars, FALSE))

calculateSimilarity(videoTitle, songName, artistName) ==
    IF videoTitle = <<>> \/ songName = <<>> \/ songName = UNDEF
    THEN Rat(0, 1)
    ELSE LET song       == toLowerCase(songName)
             artist     == IF artistName = UNDEF THEN <<>> ELSE toLowerCase(artistName)
             cleanTitle == cleanTitleOf(videoTitle)
             baseSimilarity   == calculateBaseSimilarity(cleanTitle, song)
             artistSimilarity == IF artist # <<>>
                                 THEN calculateBaseSimilarity(cleanTitle, artist)
                                 ELSE Rat(0, 1)
             f1 == IF RatGT(artistSimilarity, Rat(3, 10))
                   THEN RatMax(baseSimilarity, RatAvg(baseSimilarity, artistSimilarity))
                   ELSE baseSimilarity
             f2 == songBoost(f1, includes(cleanTitle, song))
             f3 == IF /\ artist # <<>>
                      /\ includes(cleanTitle,
                                  trim(replaceFirst(artist, <<"o","f","f","i","c","i","a","l">>)))
                   THEN RatMax(f2, Rat(7, 10))
                   ELSE f2
         IN  RatMin(f3, Rat(1, 1))

(***************************************************************************)
(* JSON values of the search response: a field is a string, a number or    *)
(* missing.                                                                *)
(***************************************************************************)
JStr(s) == [t |-> "string", v |-> s]

JNum(n) == [t |-> "number", v |-> n]

JNone == [t |-> "undefined", v |-> 0]

\* x || '' for a JSON field: missing, the empty string and 0 are falsy.
OrEmpty(x) ==
    IF x.t = "undefined" \/ (x.t = "string" /\ x.v = <<>>) \/ (x.t = "number" /\ x.v = 0)
    THEN JStr(<<>>)
    ELSE x

(***************************************************************************)
(* parseSearchResults: the response is [kind |-> "ok", result |-> videos]  *)
(* when data.result is an array, and of another kind when it is missing or *)
(* not an array.                                                           *)
(***************************************************************************)
parseVideo(video) ==
    [title     |-> IF video.title.t = "string"
                   THEN removeAll(video.title.v, <<EmOpen, EmClose>>)
                   ELSE <<>>,
     bvid      |-> IF video.bvid.t = "string" THEN video.bvid.v ELSE "",
     duration  |-> OrEmpty(video.duration),
     playCount |-> IF video.play.t = "number" THEN video.play.v ELSE 0]

parseSearchResults(jsonData) ==
    IF jsonData.kind # "ok"
    THEN <<>>
    ELSE [i \in 1..Len(jsonData.result) |-> parseVideo(jsonData.result[i])]

(***************************************************************************)
(* filterByTitle                                                           *)
(***************************************************************************)
\* The similarity threshold of filterByTitle, 0.5
TitleThreshold == Rat(5, 10)

\* A filter that wants more than the threshold
titleMatchAbove(similarity) == RatGT(similarity, TitleThreshold)

\* const isMatch = similarity >= 0.5
titleMatch(similarity) == RatGE(similarity, TitleThreshold)

filterByTitle(videos, songName, artistName) ==
    IF songName = UNDEF \/ trim(songName) = <<>>
    THEN videos
    ELSE LET isMatch(video) ==
                 titleMatch(calculateSimilarity(video.title, songName, artistName))
         IN  SelectSeq(videos, isMatch)

(***************************************************************************)
(* filterByPlayCount                                                       *)
(***************************************************************************)
\* A filter that wants more than the threshold
playMatchAbove(playCount, playThreshold) == playCount > playThreshold

\* const isMatch = video.playCount >= playThreshold
playMatch(playCount, playThreshold) == playCount >= playThreshold

filterByPlayCount(videos, playThreshold) ==
    IF playThreshold = -1
    THEN videos
    ELSE LET isMatch(video) == playMatch(video.playCount, playThreshold)
         IN  SelectSeq(videos, isMatch)

(***************************************************************************)
(* filterByDuration                                                        *)
(***************************************************************************)
\* The seconds filterByDuration computes from a duration string (its
\* videoSeconds / exactSeconds): two or three ':'-separated segments, each
\* through parseInt(x || 0); 0 for any other number of segments.
\* A parser that knows the format minutes:seconds only
durationSecondsNoHours(duration) ==
    IF Len(split(duration, ":")) = 2
    THEN NumAdd(NumMul(parseIntOrZero(split(duration, ":")[1]), 60),
                parseIntOrZero(split(duration, ":")[2]))
    ELSE Num(0)

durationSeconds(duration) ==
    LET durationParts == split(duration, ":")
    IN  IF Len(durationParts) = 2
        THEN NumAdd(NumMul(parseIntOrZero(durationParts[1]), 60),
                    parseIntOrZero(durationParts[2]))
        ELSE IF Len(durationParts) = 3
             THEN NumAdd(NumAdd(NumMul(parseIntOrZero(durationParts[1]), 3600),
                                NumMul(parseIntOrZero(durationParts[2]), 60)),
                         parseIntOrZero(durationParts[3]))
             ELSE Num(0)

\* The tolerance of the third stage, in seconds
DurationTolerance == 5

\* A stage that passes its whole input on
firstOnlyAll(videos) == videos

\* videos.length > 0 ? [videos[0]] : [], and matchedVideo ? [matchedVideo] : []
firstOnly(videos) == IF Len(videos) > 0 THEN << videos[1] >> ELSE << >>

\* The result is [throws |-> TRUE] when video.duration.split is not a
\* function (a duration that is not a string), and the surviving list
\* otherwise.
filterByDuration(videos, audioDuration, enableFilter) ==
    IF ~enableFilter
    THEN [throws |-> FALSE, videos |-> firstOnly(videos)]
    ELSE IF \E i \in 1..Len(videos) : videos[i].duration.t # "string"
         THEN [throws |-> TRUE, videos |-> <<>>]
         ELSE LET audioSeconds == audioDuration \div 1000
                  audioMinutes == audioSeconds \div 60
                  minuteMatch(video) ==
                      NumEq(FloorDiv(durationSeconds(video.duration.v), 60), audioMinutes)
                  minuteFilteredVideos == SelectSeq(videos, minuteMatch)
                  secondMatch(video) ==
                      NumWithin(durationSeconds(video.duration.v), audioSeconds,
                                DurationTolerance)
                  matched == SelectSeq(minuteFilteredVideos, secondMatch)
              IN  [throws |-> FALSE, videos |-> firstOnly(matched)]

(***************************************************************************)
(* searchVideoWithCache after the cache miss: what the lookup returns for  *)
(* the outcome of searchVideo.  The result is [kind |-> "id", bvid |-> b]  *)
(* (b is cached and returned), [kind |-> "null"], or [kind |-> "throw"]    *)
(* (an exception leaves searchVideoWithCache).                             *)
(***************************************************************************)
ResId(b) == [kind |-> "id", bvid |-> b]

ResNull == [kind |-> "null", bvid |-> UNDEF]

ResThrow == [kind |-> "throw", bvid |-> UNDEF]

afterPlayFilter(playFilteredVideos) ==
    IF Len(playFilteredVideos) = 0 THEN ResNull ELSE ResId(playFilteredVideos[1].bvid)

afterDurationFilter(durationFiltered, cfg) ==
    IF durationFiltered.throws THEN ResThrow
    ELSE IF Len(durationFiltered.videos) = 0 THEN ResNull
    ELSE afterPlayFilter(filterByPlayCount(durationFiltered.videos, cfg.filterPlay))

\* A pipeline that applies the play-count filter before the duration stage
afterTitleFilterPlayFirst(titleFilteredVideos, audioDuration, cfg) ==
    IF Len(titleFilteredVideos) = 0 THEN ResNull
    ELSE IF Len(filterByPlayCount(titleFilteredVideos, cfg.filterPlay)) = 0 THEN ResNull
    ELSE afterDurationFilter(
             filterByDuration(filterByPlayCount(titleFilteredVideos, cfg.filterPlay),
                              audioDuration, cfg.filterLength),
             [cfg EXCEPT !.filterPlay = -1])

afterTitleFilter(titleFilteredVideos, audioDuration, cfg) ==
    IF Len(titleFilteredVideos) = 0 THEN ResNull
    ELSE afterDurationFilter(
             filterByDuration(titleFilteredVideos, audioDuration, cfg.filterLength), cfg)

afterParse(videos, songName, artistName, audioDuration, cfg) ==
    IF Len(videos) = 0 THEN ResNull
    ELSE afterTitleFilter(filterByTitle(videos, songName, artistName), audioDuration, cfg)

\* A lookup without the check of data.result: mapping over a value that is
\* missing or not an array throws
selectVideoUnchecked(songName, artistName, audioDuration, searchResult, cfg) ==
    IF searchResult.kind = "throw" THEN ResNull
    ELSE IF searchResult.kind # "ok" THEN ResThrow
    ELSE afterParse(parseSearchResults(searchResult), songName, artistName,
                    audioDuration, cfg)

selectVideo(songName, artistName, audioDuration, searchResult, cfg) ==
    IF searchResult.kind = "throw"
    THEN ResNull
    ELSE afterParse(parseSearchResults(searchResult), songName, artistName,
                    audioDuration, cfg)

(***************************************************************************)
(* The inputs of a run: what the host reports as the playing track, what   *)
(* the search service answers, and the stored configuration.               *)
(***************************************************************************)
Str_sky == <<"s","k","y">>

Str_sun == <<"s","u","n">>

Str_jay == <<"j","a","y">>

\* getPlaying().data of the host, with artistName = artists[0]?.name already
\* taken: two tracks of one artist, and two tracks whose song name or artist
\* name holds a hyphen ("sun-ny" by "jay", "sun" by "ny-jay").
Tracks ==
    << [name |-> Str_sky, artist |-> Str_jay, duration |-> 225000],
       [name |-> Str_sun, artist |-> Str_jay, duration |-> 200000],
       [name |-> Str_sun \o <<"-","n","y">>, artist |-> Str_jay, duration |-> 200000],
       [name |-> Str_sun, artist |-> <<"n","y","-">> \o Str_jay, duration |-> 200000] >>

\* What getPlayingSong() does at a Load event: it returns track i, or it
\* throws (0: findApiFunction('getPlaying') found nothing).  The host plays
\* the first two tracks.
HostStates == 0..2

\* The same, for a host that plays the two tracks with a hyphen.
HyphenHostStates == {0, 3, 4}

RawVideo(title, bvid, duration, play) ==
    [title |-> title, bvid |-> bvid, duration |-> duration, play |-> play]

\* Outcomes of searchVideo(keyword): the fetch or response.json() throws, or
\* a JSON value arrives.
SearchResponses ==
    << [kind |-> "throw", result |-> <<>>],
      [kind |-> "noresult", result |-> <<>>],
      [kind |-> "ok", result |-> <<>>],
      [kind |-> "ok", result |->
          << RawVideo(JStr(EmOpen \o Str_sky \o EmClose \o
                           <<" ","O","f","f","i","c","i","a","l"," ","M","V">>),
                      JStr("BV1"), JStr(<<"3",":","4","5">>), JNum(10000)),
             RawVideo(JStr(<<"U","n","r","e","l","a","t","e","d">>),
                      JStr("BV2"), JStr(<<"3",":","4","4">>), JNum(1)) >>],
      [kind |-> "ok", result |->
          << RawVideo(JStr(Str_sun \o <<" ","m","v">>),
                      JStr("BV2"), JStr(<<"3",":","2","2">>), JNum(9000)) >>],
      [kind |-> "ok", result |->
          << RawVideo(JStr(Str_sky), JStr("BV1"), JStr(<<"3",":","4","3">>), JNum(4999)) >>],
      [kind |-> "ok", result |->
          << RawVideo(JStr(Str_sky), JStr("BV1"), JNum(225), JNum(7000)) >>],
      [kind |-> "ok", result |->
          << RawVideo(JStr(Str_jay \o <<" ">> \o Str_sun), JNone,
                      JStr(<<"3",":","2","0">>), JNum(6000)) >> ],
      [kind |-> "ok", result |->
          << RawVideo(JStr(Str_sky), JStr("BV1"), JStr(<<"3",":","4","5">>), JNum(1)),
             RawVideo(JStr(Str_sky \o <<" ","m","v">>),
                      JStr("BV2"), JStr(<<"3",":","4","4">>), JNum(10000)) >>],
      [kind |-> "notarray", result |-> <<>>] >>

\* Values of config.enable, config['filter-length'] and config['filter-play']
\* loaded from localStorage at plugin.onLoad: the defaults, both filters
\* disabled, and the defaults with enable switched off.
Configs ==
    { [enable |-> TRUE,  filterLength |-> TRUE,  filterPlay |-> 5000],
      [enable |-> TRUE,  filterLength |-> FALSE, filterPlay |-> -1],
      [enable |-> FALSE, filterLength |-> TRUE,  filterPlay |-> 5000] }

\* songKey = `${songName}-${artistName}`
songKeyOf(songName, artistName) == songName \o <<"-">> \o artistName

Keys == { songKeyOf(Tracks[i].name, Tracks[i].artist) : i \in 1..Len(Tracks) }

Sessions == 1..MaxLoads

\* Host progress values of PlayProgress events, in tenths of a second
ProgressValues == {0, 5}

\* The resync threshold of the PlayProgress handler, 0.3 s, in tenths
SyncThreshold == 3

HomeUrl == "https://www.bilibili.com"

BlankUrl == "about:blank"

videoUrlOf(bvid) == "https://www.bilibili.com/video/" \o bvid

\* What a lookup that missed the cache returns, for every configuration,
\* track and search outcome of the model: selectVideo, tabulated.
LookupTable ==
    [cfg \in Configs |->
        [t \in 1..Len(Tracks) |->
            [i \in 1..Len(SearchResponses) |->
                selectVideo(Tracks[t].name, Tracks[t].artist, Tracks[t].duration,
                            SearchResponses[i], cfg)]]]

(***************************************************************************)
(* State.                                                                  *)
(***************************************************************************)
VARIABLES
    config,             \* the options of config the model covers
    urlMap,             \* the cache: songKey -> bvid, UNDEF when absent
    searchCalls,        \* history: calls of searchVideo, per songKey
    timerArmed,         \* debounce(reloadVideo): a timer is pending
    nStarted,           \* number of reloadVideo executions started
    pc,                 \* where each reloadVideo execution is
    trk,                \* the track it read from the host (0: none)
    bvidOf,             \* what its lookup returned: a bvid, UNDEF for null or nothing yet
    src,                \* ifr.src
    srcBy,              \* history: the execution that assigned ifr.src (0: initial)
    opacity,            \* ifr.style.opacity
    loadPending,        \* the iframe is navigating; its load event is due
    docPlayer,          \* the loaded document holds the player elements
    onloadOwner,        \* ifr.onload: the execution whose switchUrl set it (0: null)
    hpc,                \* where each run of the onload handler is
    hOwner,             \* the execution whose switchUrl closure each run executes
    playerInitialized,
    playerIntervalId,   \* 0: null
    intervals,          \* the setInterval timers registered in ifr.contentWindow
    ifrVideo,           \* 0: null; else the navigation whose document holds it
    vid,                \* currentTime, volume and paused of the element ifrVideo
    lastEvent,          \* history, kept by SpecTick: the last host event, whether
                        \* it came right after a PlayState 0 that paused, whether
                        \* ifrVideo was set, and the element's state before it
    fcall,              \* SpecRank: the function of the pipeline called last,
                        \* with its arguments
    fret,               \* SpecRank: what that call returned
    enableLog,          \* LogManager: config['enable-log']
    logBuffer,          \* this.logBuffer: the entries waiting to be written
    isWriting,          \* this.isWriting
    logTimer,           \* this.logTimer is set
    flushes,            \* the calls of flushLogs: where each one is, its logText,
                        \* the content it hands to writeFileText, and whether
                        \* its file write failed
    logFile,            \* the log file: whether it exists, and its entries
    logStore,           \* localStorage 'playwithbilio_logs'
    nLogged,            \* history: number of entries log() appended
    written             \* history: the entries of successful file writes and
                        \* of the fallback store

vars == << config, urlMap, searchCalls, timerArmed, nStarted, pc, trk, bvidOf,
           src, srcBy, opacity, loadPending, docPlayer, onloadOwner, hpc, hOwner,
           playerInitialized, playerIntervalId, intervals, ifrVideo, vid,
           lastEvent, fcall, fret, enableLog, logBuffer, isWriting, logTimer,
           flushes, logFile, logStore, nLogged, written >>

cacheVars == << urlMap, searchCalls >>

surfaceVars == << src, srcBy, opacity, loadPending, docPlayer, onloadOwner >>

playerVars == << playerInitialized, playerIntervalId, intervals >>

handlerVars == << hpc, hOwner >>

videoVars == << ifrVideo, vid, lastEvent >>

\* A video element as the page creates it, before it plays.
NewVideo == [time |-> 0, volume |-> 1, paused |-> TRUE]

rankVars == << fcall, fret >>

logVars == << enableLog, logBuffer, isWriting, logTimer, flushes, logFile, logStore,
              nLogged, written >>

\* The LogManager once init() has started the timer, with an empty buffer
\* and no log file yet
NewLogManager ==
    /\ enableLog = TRUE
    /\ logBuffer = << >>
    /\ isWriting = FALSE
    /\ logTimer = TRUE
    /\ flushes = [f \in 1..MaxFlushes |->
                      [pc |-> "none", logText |-> << >>, content |-> << >>,
                       failed |-> FALSE]]
    /\ logFile = [exists |-> FALSE, text |-> << >>]
    /\ logStore = << >>
    /\ nLogged = 0
    /\ written = {}

NoCall == [fn |-> "none"]

NoEvent ==
    [kind |-> "none", arg |-> 0, resolved |-> FALSE, before |-> NewVideo,
     afterPause |-> FALSE]

Init ==
    /\ config \in Configs
    /\ urlMap = [k \in Keys |-> UNDEF]
    /\ searchCalls = [k \in Keys |-> 0]
    /\ timerArmed = FALSE
    /\ nStarted = 0
    /\ pc = [s \in Sessions |-> "idle"]
    /\ trk = [s \in Sessions |-> 0]
    /\ bvidOf = [s \in Sessions |-> UNDEF]
    /\ src = HomeUrl
    /\ srcBy = 0
    /\ opacity = 0
    /\ loadPending = FALSE
    /\ docPlayer = FALSE
    /\ onloadOwner = 0
    /\ hpc = [h \in Sessions |-> "none"]
    /\ hOwner = [h \in Sessions |-> 0]
    /\ playerInitialized = FALSE
    /\ playerIntervalId = 0
    /\ intervals = {}
    /\ ifrVideo = 0
    /\ vid = NewVideo
    /\ lastEvent = NoEvent
    /\ fcall = NoCall
    /\ fret = <<>>
    /\ NewLogManager

(***************************************************************************)
(* The cache.                                                              *)
(***************************************************************************)
\* A cache check that never hits
cacheHitNever(map, songKey) == FALSE

\* if (urlMap[songKey]) of searchVideoWithCache
cacheHit(map, songKey) == Truthy(map[songKey])

\* urlMap[songKey] = bvid
cacheResult(map, songKey, bvid) == [map EXCEPT ![songKey] = bvid]

\* A lookup that records its result whatever it is
cacheAfterLookupAlways(map, songKey, res) ==
    cacheResult(map, songKey, IF res.kind = "id" THEN res.bvid ELSE "none")

\* The cache after a lookup that missed ended with result res: only the
\* last step of searchVideoWithCache writes it.
cacheAfterLookup(map, songKey, res) ==
    IF res.kind = "id" THEN cacheResult(map, songKey, res.bvid) ELSE map

(***************************************************************************)
(* resetPlayerState and the timer bookkeeping of initBiliPlayer.           *)
(***************************************************************************)
\* ifr.contentWindow.clearInterval(id)
clearInterval(timers, id) == timers \ {id}

\* The registered timers after resetPlayerState
timersAfterReset(timers, intervalId) ==
    IF intervalId # 0 THEN clearInterval(timers, intervalId) ELSE timers

\* initBiliPlayer without the clearInterval before setInterval
timersAfterInitNoClear(timers, intervalId, new) == timers \cup {new}

\* The registered timers after initBiliPlayer cleared the previous timer (if
\* any) and registered the new one
timersAfterInit(timers, intervalId, new) ==
    (IF intervalId # 0 THEN clearInterval(timers, intervalId) ELSE timers) \cup {new}

(***************************************************************************)
(* The Load event of the host: debounce(reloadVideo) restarts its timer.   *)
(***************************************************************************)
LoadEvent ==
    /\ nStarted < MaxLoads
    /\ timerArmed' = TRUE
    /\ UNCHANGED << rankVars, config, logVars, cacheVars, nStarted, pc, trk, bvidOf, surfaceVars,
                    handlerVars, playerVars, videoVars >>

(***************************************************************************)
(* reloadVideo, from its start to its first suspension.  The debounce      *)
(* timer fires and calls it: resetPlayerState, getPlayingSong, and         *)
(* searchVideoWithCache up to the fetch of searchVideo; with a cached      *)
(* bvid it goes on into switchUrl, up to the delay of fadeOut; when        *)
(* getPlayingSong throws, the catch block runs up to the delay of fadeOut. *)
(***************************************************************************)
ReloadVideo(host) ==
    LET s == nStarted + 1
    IN  /\ timerArmed
        /\ nStarted < MaxLoads
        /\ timerArmed' = FALSE
        /\ nStarted' = s
        /\ trk' = [trk EXCEPT ![s] = host]
        /\ playerInitialized' = FALSE
        /\ intervals' = timersAfterReset(intervals, playerIntervalId)
        /\ playerIntervalId' = 0
        /\ IF host = 0
           THEN /\ opacity' = 0
                /\ pc' = [pc EXCEPT ![s] = "errFade"]
                /\ UNCHANGED << searchCalls, bvidOf >>
           ELSE LET songKey == songKeyOf(Tracks[host].name, Tracks[host].artist)
                IN  IF cacheHit(urlMap, songKey)
                    THEN /\ bvidOf' = [bvidOf EXCEPT ![s] = urlMap[songKey]]
                         /\ opacity' = 0
                         /\ pc' = [pc EXCEPT ![s] = "fadeOut"]
                         /\ UNCHANGED searchCalls
                    ELSE /\ searchCalls' = [searchCalls EXCEPT ![songKey] = @ + 1]
                         /\ pc' = [pc EXCEPT ![s] = "searching"]
                         /\ UNCHANGED << bvidOf, opacity >>
        /\ UNCHANGED << rankVars, config, logVars, urlMap, src, srcBy, loadPending, docPlayer,
                        onloadOwner, handlerVars, videoVars >>

(***************************************************************************)
(* searchVideo answers (or fails) with SearchResponses[response]: the rest *)
(* of searchVideoWithCache, then                                           *)
(* reloadVideo up to the delay of the fadeOut of switchUrl, of the         *)
(* no-candidate branch or of the catch block.                              *)
(***************************************************************************)
SearchDone(s, response) ==
    /\ pc[s] = "searching"
    /\ LET track   == Tracks[trk[s]]
           songKey == songKeyOf(track.name, track.artist)
           res     == LookupTable[config][trk[s]][response]
       IN  /\ urlMap' = cacheAfterLookup(urlMap, songKey, res)
           /\ bvidOf' = [bvidOf EXCEPT ![s] = res.bvid]
           /\ pc' = [pc EXCEPT ![s] =
                        IF res.kind = "throw" THEN "errFade"
                        ELSE IF res.kind = "id" /\ Truthy(res.bvid) THEN "fadeOut"
                        ELSE "blankFade"]
    /\ opacity' = 0
    /\ UNCHANGED << rankVars, config, logVars, searchCalls, timerArmed, nStarted, trk, src, srcBy,
                    loadPending, docPlayer, onloadOwner, handlerVars, playerVars,
                    videoVars >>

(***************************************************************************)
(* switchUrl after the delay of fadeOut: the source is swapped and the     *)
(* onload handler installed.  Assigning ifr.src navigates the iframe: the  *)
(* old document and the timers of its window are gone, a navigation still  *)
(* in progress is superseded, and one load event is due.                   *)
(***************************************************************************)
SwitchSource(s) ==
    /\ pc[s] = "fadeOut"
    /\ src' = videoUrlOf(bvidOf[s])
    /\ srcBy' = s
    /\ onloadOwner' = s
    /\ loadPending' = TRUE
    /\ docPlayer' = FALSE
    /\ intervals' = {}
    /\ pc' = [pc EXCEPT ![s] = "switching"]
    /\ UNCHANGED << rankVars, config, logVars, cacheVars, timerArmed, nStarted, trk, bvidOf, opacity,
                    handlerVars, playerInitialized, playerIntervalId, videoVars >>

(***************************************************************************)
(* The no-candidate branch and the catch block of reloadVideo after the    *)
(* delay of fadeOut: ifr.src = 'about:blank', and reloadVideo returns.     *)
(***************************************************************************)
BlankSource(s) ==
    /\ pc[s] \in {"blankFade", "errFade"}
    /\ src' = BlankUrl
    /\ srcBy' = s
    /\ loadPending' = TRUE
    /\ docPlayer' = FALSE
    /\ intervals' = {}
    /\ pc' = [pc EXCEPT ![s] = IF pc[s] = "blankFade" THEN "blank" ELSE "failed"]
    /\ UNCHANGED << rankVars, config, logVars, cacheVars, timerArmed, nStarted, trk, bvidOf, opacity,
                    onloadOwner, handlerVars, playerInitialized, playerIntervalId,
                    videoVars >>

(***************************************************************************)
(* The iframe's load event.  ifr.onload, when set, is called: it is the    *)
(* closure of the switchUrl call that set it last, and it runs fadeIn up   *)
(* to its delay.  hasPlayer: whether the loaded page is a video page that  *)
(* shows the player (the full-screen button and the video element).        *)
(***************************************************************************)
IfrLoad(hasPlayer) ==
    /\ loadPending
    /\ loadPending' = FALSE
    /\ docPlayer' = (hasPlayer /\ src # BlankUrl)
    /\ IF onloadOwner # 0
       THEN /\ hpc' = [hpc EXCEPT ![srcBy] = "fadeIn"]
            /\ hOwner' = [hOwner EXCEPT ![srcBy] = onloadOwner]
            /\ opacity' = 1
       ELSE UNCHANGED << hpc, hOwner, opacity >>
    /\ UNCHANGED << rankVars, config, logVars, cacheVars, timerArmed, nStarted, pc, trk, bvidOf, src,
                    srcBy, onloadOwner, playerVars, videoVars >>

\* rs() of switchUrl: the await in reloadVideo of execution s is released; a
\* second call for the same promise does nothing.
resolveSwitch(pcs, s) ==
    IF pcs[s] = "switching" THEN [pcs EXCEPT ![s] = "waitVideo"] ELSE pcs

\* An onload handler that calls rs() before after() has returned
pcAfterFadeInEarly(pcs, s, initialized) == resolveSwitch(pcs, s)

\* The executions after the onload handler of execution s finished fadeIn
\* and called after(): rs() follows at once only when initBiliPlayer
\* returns at its guard.
pcAfterFadeIn(pcs, s, initialized) ==
    IF initialized THEN resolveSwitch(pcs, s) ELSE pcs

(***************************************************************************)
(* The onload handler after the delay of fadeIn: after() is                *)
(* initBiliPlayer, which returns at once when playerInitialized (and the   *)
(* handler calls rs), and otherwise starts polling for the full-screen     *)
(* button.                                                                 *)
(***************************************************************************)
HandlerFadeInDone(h) ==
    /\ hpc[h] = "fadeIn"
    /\ hpc' = [hpc EXCEPT ![h] = IF playerInitialized THEN "skipped" ELSE "initWait"]
    /\ pc' = pcAfterFadeIn(pc, hOwner[h], playerInitialized)
    /\ UNCHANGED << rankVars, config, logVars, cacheVars, timerArmed, nStarted, trk, bvidOf,
                    surfaceVars, hOwner, playerVars, videoVars >>

(***************************************************************************)
(* initBiliPlayer after waitForFunction found the full-screen button in    *)
(* the document the iframe holds now: the previous timer is cleared, the   *)
(* new one registered, playerInitialized set; the handler then calls rs.   *)
(***************************************************************************)
InitBiliPlayerDone(h) ==
    /\ hpc[h] = "initWait"
    /\ docPlayer
    /\ intervals' = timersAfterInit(intervals, playerIntervalId, h)
    /\ playerIntervalId' = h
    /\ playerInitialized' = TRUE
    /\ hpc' = [hpc EXCEPT ![h] = "inited"]
    /\ pc' = resolveSwitch(pc, hOwner[h])
    /\ UNCHANGED << rankVars, config, logVars, cacheVars, timerArmed, nStarted, trk, bvidOf,
                    surfaceVars, hOwner, videoVars >>

(***************************************************************************)
(* reloadVideo after waitForFunction found the video element of the        *)
(* document the iframe holds now: ifrVideo is assigned and muted.  A new   *)
(* element starts at time 0 with volume 1, playing or paused.              *)
(***************************************************************************)
VideoFound(s, startsPaused) ==
    /\ pc[s] = "waitVideo"
    /\ docPlayer
    /\ ifrVideo' = srcBy
    /\ vid' = IF ifrVideo = srcBy
              THEN [vid EXCEPT !.volume = 0]
              ELSE [NewVideo EXCEPT !.volume = 0, !.paused = startsPaused]
    /\ pc' = [pc EXCEPT ![s] = "synced"]
    /\ UNCHANGED << rankVars, config, logVars, cacheVars, timerArmed, nStarted, trk, bvidOf,
                    surfaceVars, handlerVars, playerVars, lastEvent >>

(***************************************************************************)
(* The PlayState handler: state 1 is playing.  play() and pause() are      *)
(* modelled by their effect on the paused attribute of the element.        *)
(***************************************************************************)
\* A handler that takes state 1 for paused
PlayStateHandlerSwapped(state) ==
    IF ifrVideo = 0
    THEN UNCHANGED vid
    ELSE vid' = [vid EXCEPT !.paused = (state = 1)]

PlayStateHandler(state) ==
    IF ifrVideo = 0
    THEN UNCHANGED vid
    ELSE vid' = [vid EXCEPT !.paused = (state # 1)]

\* A PlayState handler that also blanks the surface when the host pauses
PlayStateBlanking(state) ==
    /\ PlayStateHandler(state)
    /\ src' = IF state = 0 THEN BlankUrl ELSE src
    /\ UNCHANGED << rankVars, config, logVars, cacheVars, timerArmed, nStarted, pc, trk, bvidOf,
                    srcBy, opacity, loadPending, docPlayer, onloadOwner, handlerVars,
                    playerVars, ifrVideo, lastEvent >>

PlayState(state) ==
    /\ PlayStateHandler(state)
    /\ UNCHANGED << rankVars, config, logVars, cacheVars, timerArmed, nStarted, pc, trk, bvidOf,
                    surfaceVars, handlerVars, playerVars, ifrVideo, lastEvent >>

\* A handler that corrects at a difference of 0.3 s already
needsResyncFrom(timeDiff) == timeDiff >= SyncThreshold

\* A handler with a threshold of 0.5 s
needsResyncCoarse(timeDiff) == timeDiff > 5

\* if (timeDiff > 0.3)
needsResync(timeDiff) == timeDiff > SyncThreshold

\* A handler that leaves the volume as it finds it
volumeAfterTickKept(volume) == volume

\* ifrVideo.volume = 0
volumeAfterTick(volume) == 0

\* A handler that calls play() unless the host audio is known to be paused
pausedAfterTickUnlessPaused(paused, audioPaused) ==
    IF audioPaused # "true" THEN FALSE ELSE paused

\* if (...currentAudioPlayer?.paused === false) ifrVideo?.play()
pausedAfterTick(paused, audioPaused) ==
    IF audioPaused = "false" THEN FALSE ELSE paused

(***************************************************************************)
(* The PlayProgress handler.  audioPaused is what                          *)
(* loadedPlugins.LibFrontendPlay?.currentAudioPlayer?.paused gives: TRUE,  *)
(* FALSE, or UNDEF when the plugin or its player is missing.  Times are in *)
(* tenths of a second.                                                     *)
(***************************************************************************)
PlayProgressHandler(progress, audioPaused) ==
    IF ifrVideo = 0
    THEN UNCHANGED vid
    ELSE vid' = [time   |-> IF needsResync(Abs(vid.time - progress))
                            THEN progress ELSE vid.time,
                 paused |-> pausedAfterTick(vid.paused, audioPaused),
                 volume |-> volumeAfterTick(vid.volume)]

PlayProgress(progress, audioPaused) ==
    /\ PlayProgressHandler(progress, audioPaused)
    /\ UNCHANGED << rankVars, config, logVars, cacheVars, timerArmed, nStarted, pc, trk, bvidOf,
                    surfaceVars, handlerVars, playerVars, ifrVideo, lastEvent >>

AudioPausedValues == {"true", "false", UNDEF}

Next ==
    \/ LoadEvent
    \/ \E host \in HostStates : ReloadVideo(host)
    \/ \E s \in Sessions, i \in 1..Len(SearchResponses) :
           SearchDone(s, i)
    \/ \E s \in Sessions : SwitchSource(s)
    \/ \E s \in Sessions : BlankSource(s)
    \/ \E hasPlayer \in BOOLEAN : IfrLoad(hasPlayer)
    \/ \E h \in Sessions : HandlerFadeInDone(h)
    \/ \E h \in Sessions : InitBiliPlayerDone(h)
    \/ \E s \in Sessions, p \in BOOLEAN : VideoFound(s, p)
    \/ \E st \in {0, 1} : PlayState(st)
    \/ \E progress \in ProgressValues, a \in AudioPausedValues : PlayProgress(progress, a)

Spec == Init /\ [][Next]_vars

(***************************************************************************)
(* The plugin with a host that plays the tracks with a hyphen.             *)
(***************************************************************************)
NextHyphen ==
    \/ LoadEvent
    \/ \E host \in HyphenHostStates : ReloadVideo(host)
    \/ \E s \in Sessions, i \in 1..Len(SearchResponses) :
           SearchDone(s, i)
    \/ \E s \in Sessions : SwitchSource(s)
    \/ \E s \in Sessions : BlankSource(s)
    \/ \E hasPlayer \in BOOLEAN : IfrLoad(hasPlayer)
    \/ \E h \in Sessions : HandlerFadeInDone(h)
    \/ \E h \in Sessions : InitBiliPlayerDone(h)
    \/ \E s \in Sessions, p \in BOOLEAN : VideoFound(s, p)
    \/ \E st \in {0, 1} : PlayState(st)
    \/ \E progress \in ProgressValues, a \in AudioPausedValues : PlayProgress(progress, a)

SpecHyphen == Init /\ [][NextHyphen]_vars

(***************************************************************************)
(* The event handlers on one video element, with finer host progress       *)
(* values.  A run starts where the first execution of reloadVideo, for the *)
(* first track, has shown its video page and waits for the video element;  *)
(* the element is found, the host sends PlayState and PlayProgress events  *)
(* (each recorded in lastEvent), and another party (the page's own player, *)
(* the user) may turn the volume of the element up.                        *)
(***************************************************************************)
\* Host progress values, in tenths of a second
TickProgress == {0, 97, 100, 102, 103, 104, 105, 109}

TickBvid == "BV1"

InitTick ==
    /\ config \in Configs
    /\ urlMap = [k \in Keys |-> IF k = songKeyOf(Tracks[1].name, Tracks[1].artist)
                                THEN TickBvid ELSE UNDEF]
    /\ searchCalls = [k \in Keys |-> IF k = songKeyOf(Tracks[1].name, Tracks[1].artist)
                                     THEN 1 ELSE 0]
    /\ timerArmed = FALSE
    /\ nStarted = 1
    /\ pc = [s \in Sessions |-> IF s = 1 THEN "waitVideo" ELSE "idle"]
    /\ trk = [s \in Sessions |-> IF s = 1 THEN 1 ELSE 0]
    /\ bvidOf = [s \in Sessions |-> IF s = 1 THEN TickBvid ELSE UNDEF]
    /\ src = videoUrlOf(TickBvid)
    /\ srcBy = 1
    /\ opacity = 1
    /\ loadPending = FALSE
    /\ docPlayer = TRUE
    /\ onloadOwner = 1
    /\ hpc = [h \in Sessions |-> IF h = 1 THEN "inited" ELSE "none"]
    /\ hOwner = [h \in Sessions |-> IF h = 1 THEN 1 ELSE 0]
    /\ playerInitialized = TRUE
    /\ playerIntervalId = 1
    /\ intervals = {1}
    /\ ifrVideo = 0
    /\ vid = NewVideo
    /\ lastEvent = NoEvent
    /\ fcall = NoCall
    /\ fret = <<>>
    /\ NewLogManager

TickPlayState(state) ==
    /\ PlayStateHandler(state)
    /\ lastEvent' = [kind |-> "state", arg |-> state, resolved |-> ifrVideo # 0,
                     before |-> vid,
                     afterPause |-> (/\ lastEvent.kind = "state"
                                     /\ lastEvent.arg = 0
                                     /\ lastEvent.resolved)]
    /\ UNCHANGED << rankVars, config, logVars, cacheVars, timerArmed, nStarted, pc, trk, bvidOf,
                    surfaceVars, handlerVars, playerVars, ifrVideo >>

TickPlayProgress(progress, audioPaused) ==
    /\ PlayProgressHandler(progress, audioPaused)
    /\ lastEvent' = [kind |-> "progress", arg |-> progress, resolved |-> ifrVideo # 0,
                     before |-> vid,
                     afterPause |-> (/\ lastEvent.kind = "state"
                                     /\ lastEvent.arg = 0
                                     /\ lastEvent.resolved)]
    /\ UNCHANGED << rankVars, config, logVars, cacheVars, timerArmed, nStarted, pc, trk, bvidOf,
                    surfaceVars, handlerVars, playerVars, ifrVideo >>

VolumeChanged ==
    /\ ifrVideo # 0
    /\ vid.volume = 0
    /\ vid' = [vid EXCEPT !.volume = 1]
    /\ UNCHANGED << rankVars, config, logVars, cacheVars, timerArmed, nStarted, pc, trk, bvidOf,
                    surfaceVars, handlerVars, playerVars, ifrVideo, lastEvent >>

NextTick ==
    \/ \E p \in BOOLEAN : VideoFound(1, p)
    \/ \E st \in {0, 1} : TickPlayState(st)
    \/ \E progress \in TickProgress, a \in AudioPausedValues :
           TickPlayProgress(progress, a)
    \/ VolumeChanged

SpecTick == InitTick /\ [][NextTick]_vars

(***************************************************************************)
(* Runs that start where the first execution of reloadVideo, for the first *)
(* track, has shown its video page and the onload handler has called       *)
(* initBiliPlayer, which polls for the full-screen button: the init of the *)
(* first execution is in flight, and the host may send the next Load       *)
(* event.                                                                  *)
(***************************************************************************)
InitInFlight ==
    /\ config \in Configs
    /\ urlMap = [k \in Keys |-> IF k = songKeyOf(Tracks[1].name, Tracks[1].artist)
                                THEN TickBvid ELSE UNDEF]
    /\ searchCalls = [k \in Keys |-> IF k = songKeyOf(Tracks[1].name, Tracks[1].artist)
                                     THEN 1 ELSE 0]
    /\ timerArmed = FALSE
    /\ nStarted = 1
    /\ pc = [s \in Sessions |-> IF s = 1 THEN "switching" ELSE "idle"]
    /\ trk = [s \in Sessions |-> IF s = 1 THEN 1 ELSE 0]
    /\ bvidOf = [s \in Sessions |-> IF s = 1 THEN TickBvid ELSE UNDEF]
    /\ src = videoUrlOf(TickBvid)
    /\ srcBy = 1
    /\ opacity = 1
    /\ loadPending = FALSE
    /\ docPlayer = TRUE
    /\ onloadOwner = 1
    /\ hpc = [h \in Sessions |-> IF h = 1 THEN "initWait" ELSE "none"]
    /\ hOwner = [h \in Sessions |-> IF h = 1 THEN 1 ELSE 0]
    /\ playerInitialized = FALSE
    /\ playerIntervalId = 0
    /\ intervals = {}
    /\ ifrVideo = 0
    /\ vid = NewVideo
    /\ lastEvent = NoEvent
    /\ fcall = NoCall
    /\ fret = <<>>
    /\ NewLogManager

SpecInFlight == InitInFlight /\ [][Next]_vars

(***************************************************************************)
(* The stages of the pipeline as functions: a run of SpecRank calls        *)
(* filterByTitle, filterByDuration, filterByPlayCount and the lookup after *)
(* a cache miss once, with arguments drawn from the sets below, and        *)
(* records the call and its result.                                        *)
(***************************************************************************)
\* A parsed candidate, as parseSearchResults builds it
Candidate(title, bvid, duration, playCount) ==
    [title |-> title, bvid |-> bvid, duration |-> duration, playCount |-> playCount]

\* The bvid of the candidate at position i of a list
RankBvid(i) == IF i = 1 THEN "BV1" ELSE "BV2"

\* A list of no, one or two candidates, by the indices of an attribute of
\* each in a sequence of values (0: no candidate)
RankList(first, second, i, j) ==
    IF i = 0 THEN << >>
    ELSE IF j = 0 THEN << first >>
    ELSE << first, second >>

\* duration strings of candidates, and a duration that is a number
RankDurations ==
    << JStr(<< "3", ":", "4", "5" >>),
       JStr(<< "3", ":", "4", "1" >>),
       JStr(<< "3", ":", "4", "0" >>),
       JStr(<< "3", ":", "5", "0" >>),
       JStr(<< "3", ":", "1", "0" >>),
       JStr(<< "4", ":", "0", "0" >>),
       JStr(<< "2", ":", "5", "9" >>),
       JStr(<< "1", ":", "0", "2", ":", "0", "3" >>),
       JStr(<< >>),
       JStr(<< "a", "b", "c" >>),
       JStr(<< "3", ":" >>),
       JStr(<< "a", ":", "b" >>),
       JNum(225),
       JStr(<< "1", ":", "0", "2", ":", "0", "3" >>),
       JStr(<< "-", "1", ":", "3", "0" >>),
       JStr(<< "1", ":", "2", ":", "3", ":", "4" >>),
       JStr(<< "3", ":", "x", "x" >>) >>

\* track durations in ms
RankAudioDurations == {0, 225000, 225999, 229000, 240000, 3723000}

DurationCandidate(i, pos) ==
    Candidate(Str_sky, RankBvid(pos), RankDurations[i], 10000)

DurationList(i, j) ==
    RankList(DurationCandidate(IF i = 0 THEN 1 ELSE i, 1),
             DurationCandidate(IF j = 0 THEN 1 ELSE j, 2), i, j)

\* candidate titles, after parsing
RankTitles ==
    << << "s", "k", "y" >>,
       << "s", "k", "y", " ", "o", "f", "f", "i", "c", "i", "a", "l", " ", "m", "v" >>,
       << "s", "k", "a", "b" >>,
       << "s", "u", "n" >>,
       << "u", "n", "r", "e", "l", "a", "t", "e", "d" >>,
       << "j", "a", "y", " ", "s", "k", "y" >>,
       << >> >>

\* track titles: two names, the empty string and a blank
RankSongNames ==
    << << "s", "k", "y" >>,
       << "s", "u", "n" >>,
       << >>,
       << " " >> >>

TitleCandidate(i, pos) ==
    Candidate(RankTitles[i], RankBvid(pos), JStr(<< "3", ":", "4", "5" >>), 10000)

TitleList(i, j) ==
    RankList(TitleCandidate(IF i = 0 THEN 1 ELSE i, 1),
             TitleCandidate(IF j = 0 THEN 1 ELSE j, 2), i, j)

RankPlayCounts == << 0, 1, 4999, 5000, 5001, 10000 >>

RankPlayThresholds == {-1, 0, 5000}

PlayCandidate(i, pos) ==
    Candidate(Str_sky, RankBvid(pos), JStr(<< "3", ":", "4", "5" >>), RankPlayCounts[i])

PlayList(i, j) ==
    RankList(PlayCandidate(IF i = 0 THEN 1 ELSE i, 1),
             PlayCandidate(IF j = 0 THEN 1 ELSE j, 2), i, j)

CallFilterByDuration(i, j, audioDuration, enableFilter) ==
    /\ fcall = NoCall
    /\ j # 0 => i # 0
    /\ fcall' = [fn |-> "filterByDuration",
                 videos |-> DurationList(i, j),
                 audioDuration |-> audioDuration,
                 enableFilter |-> enableFilter]
    /\ fret' = filterByDuration(DurationList(i, j), audioDuration,
                                enableFilter)
    /\ UNCHANGED << config, logVars, cacheVars, timerArmed, nStarted, pc, trk, bvidOf,
                    surfaceVars, handlerVars, playerVars, videoVars >>

CallFilterByTitle(i, j, n) ==
    /\ fcall = NoCall
    /\ j # 0 => i # 0
    /\ fcall' = [fn |-> "filterByTitle",
                 videos |-> TitleList(i, j),
                 songName |-> RankSongNames[n],
                 artistName |-> Str_jay]
    /\ fret' = filterByTitle(TitleList(i, j), RankSongNames[n], Str_jay)
    /\ UNCHANGED << config, logVars, cacheVars, timerArmed, nStarted, pc, trk, bvidOf,
                    surfaceVars, handlerVars, playerVars, videoVars >>

CallFilterByPlayCount(i, j, playThreshold) ==
    /\ fcall = NoCall
    /\ j # 0 => i # 0
    /\ fcall' = [fn |-> "filterByPlayCount",
                 videos |-> PlayList(i, j),
                 playThreshold |-> playThreshold]
    /\ fret' = filterByPlayCount(PlayList(i, j), playThreshold)
    /\ UNCHANGED << config, logVars, cacheVars, timerArmed, nStarted, pc, trk, bvidOf,
                    surfaceVars, handlerVars, playerVars, videoVars >>

\* The parsing of one candidate's duration in filterByDuration:
\* video.duration.split(':') is a TypeError when the duration is a number.
CallDurationSeconds(i) ==
    /\ fcall = NoCall
    /\ fcall' = [fn |-> "durationSeconds", duration |-> RankDurations[i]]
    /\ fret' = IF RankDurations[i].t = "string"
               THEN [throws |-> FALSE, seconds |-> durationSeconds(RankDurations[i].v)]
               ELSE [throws |-> TRUE, seconds |-> NaN]
    /\ UNCHANGED << config, logVars, cacheVars, timerArmed, nStarted, pc, trk, bvidOf,
                    surfaceVars, handlerVars, playerVars, videoVars >>

\* strings compared by calculateBaseSimilarity
RankStrings ==
    { << >>,
      << "x" >>,
      << "a", "b", "c" >>,
      << "A", "B", "C" >>,
      << "a", "c", "b" >>,
      << "a", "b", "c", "d", "e", "f" >>,
      << "f", "e", "d", "c", "b", "a" >>,
      << "a", "x", "b", "y", "c" >>,
      << "S", "k", "y" >>,
      << "s", "k", "a", "b" >> }

CallBaseSimilarity(str1, str2) ==
    /\ fcall = NoCall
    /\ fcall' = [fn |-> "calculateBaseSimilarity", str1 |-> str1, str2 |-> str2]
    /\ fret' = calculateBaseSimilarity(str1, str2)
    /\ UNCHANGED << config, logVars, cacheVars, timerArmed, nStarted, pc, trk, bvidOf,
                    surfaceVars, handlerVars, playerVars, videoVars >>

\* The characters encodeURIComponent leaves as they are, besides letters and
\* digits
UnreservedMarks == {"-", "_", ".", "!", "~", "*", "'", "(", ")"}

\* The escape of an ASCII character that is not left as it is
PercentCode(c) ==
    CASE c = " " -> << "%", "2", "0" >>
      [] c = "#" -> << "%", "2", "3" >>
      [] c = "%" -> << "%", "2", "5" >>
      [] c = "&" -> << "%", "2", "6" >>
      [] c = "+" -> << "%", "2", "B" >>
      [] c = "/" -> << "%", "2", "F" >>
      [] c = ":" -> << "%", "3", "A" >>
      [] c = "=" -> << "%", "3", "D" >>
      [] c = "?" -> << "%", "3", "F" >>

RECURSIVE encodeURIComponent(_)
encodeURIComponent(s) ==
    IF s = << >> THEN << >>
    ELSE (IF \/ s[1] \in UnreservedMarks
             \/ IsDigit(s[1])
             \/ \E i \in 1..26 : s[1] = UpperChars[i] \/ s[1] = LowerChars[i]
          THEN << s[1] >>
          ELSE PercentCode(s[1])) \o encodeURIComponent(Tail(s))

\* The keyword searchVideoWithCache builds with the default template
\* '{name} {artist} MV/PV'
searchKeyword(songName, artistName) ==
    cleanSongName(songName) \o << " " >> \o artistName \o << " ", "M", "V", "/", "P", "V" >>

\* The request of searchVideo: the endpoint, the names of the parameters of
\* its query string, and their values
searchRequest(kwd) ==
    [endpoint    |-> "https://api.bilibili.com/x/web-interface/search/type",
     params      |-> {"search_type", "keyword"},
     search_type |-> "video",
     keyword     |-> encodeURIComponent(kwd)]

\* keywords: those of the tracks, and others with characters that must be
\* escaped in a query string
RankKeywords ==
    { searchKeyword(Tracks[t].name, Tracks[t].artist) : t \in 1..Len(Tracks) }
        \cup { << "a", "&", "o", "r", "d", "e", "r", "=", "a" >>,
               << "M", "V", " ", "s", "k", "y", " ", "-", " ", "j", "a", "y" >>,
               << "1", "0", "0", "%", " ", "a", "+", "b", "?", "#", ":" >>,
               << >> }

\* searchVideo(kwd), up to the request it sends
CallSearchVideo(kwd) ==
    /\ fcall = NoCall
    /\ fcall' = [fn |-> "searchVideo", kwd |-> kwd]
    /\ fret' = searchRequest(kwd)
    /\ UNCHANGED << config, logVars, cacheVars, timerArmed, nStarted, pc, trk, bvidOf,
                    surfaceVars, handlerVars, playerVars, videoVars >>

\* titles, track titles and artist names given to calculateSimilarity
SimTitles ==
    { RankTitles[i] : i \in 1..Len(RankTitles) }
        \cup { << "x", "y", "z" >>,
               << "j", "a", "x", "y" >>,
               << "J", "a", "y" >>,
               << "m", "v" >>,
               << "[", "s", "k", "y", "]", " ", "z" >>,
               << "s", "x", "k", "y" >> }

SimSongNames == { Str_sky, << "S", "u", "n" >>, Str_jay, << >> }

SimArtistNames ==
    { Str_jay,
      << >>,
      << "o", "f", "f", "i", "c", "i", "a", "l", " ", "j", "a", "y" >>,
      << "o", "f", "f", "i", "c", "i", "a", "l" >>,
      << "x", "y", "z", "w" >> }

CallCalculateSimilarity(videoTitle, songName, artistName) ==
    /\ fcall = NoCall
    /\ fcall' = [fn |-> "calculateSimilarity", videoTitle |-> videoTitle,
                 songName |-> songName, artistName |-> artistName]
    /\ fret' = calculateSimilarity(videoTitle, songName, artistName)
    /\ UNCHANGED << config, logVars, cacheVars, timerArmed, nStarted, pc, trk, bvidOf,
                    surfaceVars, handlerVars, playerVars, videoVars >>

(***************************************************************************)
(* The logger.  levels maps the level names to priorities; a level that is *)
(* not in the map has no priority (undefined).                             *)
(***************************************************************************)
levels == [debug |-> 0, info |-> 1, warn |-> 2, error |-> 3]

\* this.levels[level] || 1
priorityOf(level) ==
    IF level \in DOMAIN levels /\ levels[level] # 0 THEN levels[level] ELSE 1

\* logger.shouldLog(level) with config['log-enable'] = logEnable and
\* config['log-level'] = logLevel ("" stands for a missing or empty value)
shouldLog(level, logEnable, logLevel) ==
    IF ~logEnable
    THEN FALSE
    ELSE priorityOf(level) >= priorityOf(IF logLevel = "" THEN "info" ELSE logLevel)

\* logger.log(level, message): fret tells whether the message was written
\* to the console
CallLog(level, logEnable, logLevel) ==
    /\ fcall = NoCall
    /\ fcall' = [fn |-> "log", level |-> level, logEnable |-> logEnable,
                 logLevel |-> logLevel]
    /\ fret' = shouldLog(level, logEnable, logLevel)
    /\ UNCHANGED << config, logVars, cacheVars, timerArmed, nStarted, pc, trk, bvidOf,
                    surfaceVars, handlerVars, playerVars, videoVars >>

\* searchVideoWithCache after a cache miss, for track t, the search outcome
\* SearchResponses[r] and the configuration cfg
CallLookup(t, r, cfg) ==
    /\ fcall = NoCall
    /\ fcall' = [fn |-> "lookup", track |-> t, response |-> r, cfg |-> cfg]
    /\ fret' = LookupTable[cfg][t][r]
    /\ urlMap' = cacheAfterLookup(urlMap, songKeyOf(Tracks[t].name, Tracks[t].artist),
                                  LookupTable[cfg][t][r])
    /\ searchCalls' = [searchCalls EXCEPT
                           ![songKeyOf(Tracks[t].name, Tracks[t].artist)] = @ + 1]
    /\ UNCHANGED << config, logVars, timerArmed, nStarted, pc, trk, bvidOf,
                    surfaceVars, handlerVars, playerVars, videoVars >>

NextRank ==
    \/ \E i, j \in 0..Len(RankDurations), d \in RankAudioDurations, e \in BOOLEAN :
           CallFilterByDuration(i, j, d, e)
    \/ \E i, j \in 0..Len(RankTitles), n \in 1..Len(RankSongNames) :
           CallFilterByTitle(i, j, n)
    \/ \E i, j \in 0..Len(RankPlayCounts), th \in RankPlayThresholds :
           CallFilterByPlayCount(i, j, th)
    \/ \E t \in 1..Len(Tracks), r \in 1..Len(SearchResponses), cfg \in Configs :
           CallLookup(t, r, cfg)
    \/ \E i \in 1..Len(RankDurations) : CallDurationSeconds(i)
    \/ \E str1, str2 \in RankStrings : CallBaseSimilarity(str1, str2)
    \/ \E kwd \in RankKeywords : CallSearchVideo(kwd)
    \/ \E videoTitle \in SimTitles, songName \in SimSongNames,
          artistName \in SimArtistNames :
           CallCalculateSimilarity(videoTitle, songName, artistName)
    \/ \E level \in DOMAIN levels, logEnable \in BOOLEAN,
          logLevel \in DOMAIN levels \cup {""} :
           CallLog(level, logEnable, logLevel)

SpecRank == Init /\ [][NextRank]_vars

(***************************************************************************)
(* The LogManager.  Entries are numbered in the order log() appends them;  *)
(* a text (logText, the file, the fallback store) is the sequence of the   *)
(* entries it holds.  flushLogs is an async function: one action for the   *)
(* call up to its first await, and one for each of its continuations when  *)
(* betterncm.fs.exists, readFileText and writeFileText settle.             *)
(***************************************************************************)
\* The entries of a text
EntriesOf(text) == { text[i] : i \in 1..Len(text) }

\* logManager.log(level, message, data)
Log ==
    /\ nLogged < MaxEntries
    /\ enableLog
    /\ logBuffer' = Append(logBuffer, nLogged + 1)
    /\ nLogged' = nLogged + 1
    /\ UNCHANGED << enableLog, isWriting, logTimer, flushes, logFile, logStore, written >>
    /\ UNCHANGED << rankVars, config, cacheVars, timerArmed, nStarted, pc, trk, bvidOf,
                    surfaceVars, handlerVars, playerVars, videoVars >>

\* The checkbox of 'enable-log' in the settings changes: the handler sets
\* config['enable-log'] and calls saveConfig, which logs three messages
\* (appended when logging is now enabled)
SetEnableLog(checked) ==
    /\ checked => nLogged + 3 <= MaxEntries
    /\ enableLog' = checked
    /\ logBuffer' = IF checked
                    THEN logBuffer \o << nLogged + 1, nLogged + 2, nLogged + 3 >>
                    ELSE logBuffer
    /\ nLogged' = IF checked THEN nLogged + 3 ELSE nLogged
    /\ UNCHANGED << isWriting, logTimer, flushes, logFile, logStore, written >>
    /\ UNCHANGED << rankVars, config, cacheVars, timerArmed, nStarted, pc, trk, bvidOf,
                    surfaceVars, handlerVars, playerVars, videoVars >>

\* A flushLogs without the isWriting test
flushReturnsUnguarded(enabled, writing, buffer) == ~enabled \/ Len(buffer) = 0

\* The early return of flushLogs
flushReturns(enabled, writing, buffer) == ~enabled \/ writing \/ Len(buffer) = 0

\* Call f of flushLogs leaves its try block by an exception.  The catch
\* block calls this.fallbackStorage(logText), but logText is declared inside
\* the try block and is not in scope there: evaluating the argument throws
\* a ReferenceError, fallbackStorage is not entered and localStorage stays
\* as it is; the finally block resets isWriting, and the promise of
\* flushLogs rejects.  The buffer keeps its entries.
FlushFails(f) ==
    /\ flushes' = [flushes EXCEPT ![f].pc = "rejected", ![f].failed = TRUE]
    /\ isWriting' = FALSE
    /\ UNCHANGED << logBuffer, logFile, logStore, written >>

\* flushLogs is called by the timer, by the beforeunload listener, by
\* forceFlush or by stop (which clears the timer first), and runs up to its
\* first await.  fsAvailable: betterncm.fs is there.
FlushLogs(caller, fsAvailable) ==
    /\ \E f \in 1..MaxFlushes :
           /\ flushes[f].pc = "none"
           /\ \A g \in 1..(f - 1) : flushes[g].pc # "none"
           /\ IF flushReturns(enableLog, isWriting, logBuffer)
              THEN /\ flushes' = [flushes EXCEPT ![f].pc = "returned"]
                   /\ UNCHANGED << isWriting, logBuffer, logFile, logStore, written >>
              ELSE IF ~fsAvailable
              THEN /\ flushes' = [flushes EXCEPT ![f] =
                                      [pc |-> "rejected", logText |-> logBuffer,
                                       content |-> << >>, failed |-> TRUE]]
                   /\ isWriting' = FALSE
                   /\ UNCHANGED << logBuffer, logFile, logStore, written >>
              ELSE /\ flushes' = [flushes EXCEPT ![f] =
                                      [pc |-> "exists", logText |-> logBuffer,
                                       content |-> << >>, failed |-> FALSE]]
                   /\ isWriting' = TRUE
                   /\ UNCHANGED << logBuffer, logFile, logStore, written >>
    /\ caller = "timer" => logTimer
    /\ logTimer' = IF caller = "stop" THEN FALSE ELSE logTimer
    /\ UNCHANGED << enableLog, nLogged >>
    /\ UNCHANGED << rankVars, config, cacheVars, timerArmed, nStarted, pc, trk, bvidOf,
                    surfaceVars, handlerVars, playerVars, videoVars >>

\* betterncm.fs.exists(this.logFilePath) settles
FlushExistsDone(f, throws) ==
    /\ flushes[f].pc = "exists"
    /\ IF throws
       THEN FlushFails(f)
       ELSE /\ flushes' = [flushes EXCEPT
                               ![f].pc = IF logFile.exists THEN "read" ELSE "write",
                               ![f].content = flushes[f].logText]
            /\ UNCHANGED << isWriting, logBuffer, logFile, logStore, written >>
    /\ UNCHANGED << enableLog, logTimer, nLogged >>
    /\ UNCHANGED << rankVars, config, cacheVars, timerArmed, nStarted, pc, trk, bvidOf,
                    surfaceVars, handlerVars, playerVars, videoVars >>

\* betterncm.fs.readFileText settles: the new content is the existing text
\* plus logText, or logText alone when the read failed
FlushReadDone(f, throws) ==
    /\ flushes[f].pc = "read"
    /\ flushes' = [flushes EXCEPT
                      ![f].pc = "write",
                      ![f].content = IF throws THEN flushes[f].logText
                                     ELSE logFile.text \o flushes[f].logText]
    /\ UNCHANGED << enableLog, isWriting, logTimer, logBuffer, logFile, logStore,
                    nLogged, written >>
    /\ UNCHANGED << rankVars, config, cacheVars, timerArmed, nStarted, pc, trk, bvidOf,
                    surfaceVars, handlerVars, playerVars, videoVars >>

\* betterncm.fs.writeFileText settles with true, with false, or throws.  On
\* success the buffer is emptied and the finally block resets isWriting.
FlushWriteDone(f, outcome) ==
    /\ flushes[f].pc = "write"
    /\ IF outcome = "true"
       THEN /\ logFile' = [exists |-> TRUE, text |-> flushes[f].content]
            /\ written' = written \cup EntriesOf(flushes[f].content)
            /\ logBuffer' = << >>
            /\ isWriting' = FALSE
            /\ flushes' = [flushes EXCEPT ![f].pc = "resolved"]
            /\ UNCHANGED logStore
       ELSE FlushFails(f)
    /\ UNCHANGED << enableLog, logTimer, nLogged >>
    /\ UNCHANGED << rankVars, config, cacheVars, timerArmed, nStarted, pc, trk, bvidOf,
                    surfaceVars, handlerVars, playerVars, videoVars >>

NextLog ==
    \/ Log
    \/ \E checked \in BOOLEAN : SetEnableLog(checked)
    \/ \E caller \in {"timer", "beforeunload", "forceFlush", "stop"},
          fsAvailable \in BOOLEAN : FlushLogs(caller, fsAvailable)
    \/ \E f \in 1..MaxFlushes, throws \in BOOLEAN : FlushExistsDone(f, throws)
    \/ \E f \in 1..MaxFlushes, throws \in BOOLEAN : FlushReadDone(f, throws)
    \/ \E f \in 1..MaxFlushes, outcome \in {"true", "false", "throw"} :
           FlushWriteDone(f, outcome)

SpecLog == Init /\ [][NextLog]_vars

(***************************************************************************)
(* Definitions shared by the properties.                                   *)
(***************************************************************************)
keyOfTrack(t) == songKeyOf(Tracks[t].name, Tracks[t].artist)

\* Execution s of reloadVideo has started and not returned.
InProgress(s) ==
    pc[s] \in {"searching", "fadeOut", "switching", "waitVideo", "blankFade", "errFade"}

\* The step is the start of a reloadVideo execution that read track t.
StartsLookup(t) ==
    /\ nStarted' = nStarted + 1
    /\ trk'[nStarted'] = t

\* The step is a PlayState or PlayProgress event.
HostTick ==
    \/ \E st \in {0, 1} : PlayState(st)
    \/ \E progress \in ProgressValues, a \in AudioPausedValues : PlayProgress(progress, a)

C2_NegativeNotCached ==
    [][/\ \A s \in Sessions :
              (/\ pc[s] = "searching"
               /\ pc'[s] \in {"blankFade", "errFade"}
               /\ bvidOf'[s] = UNDEF)
              => urlMap' = urlMap
       /\ \A t \in 1..Len(Tracks) :
              (StartsLookup(t) /\ ~Truthy(urlMap[keyOfTrack(t)]))
              => /\ searchCalls'[keyOfTrack(t)] = searchCalls[keyOfTrack(t)] + 1
                 /\ pc'[nStarted'] = "searching"]_vars

\* A lookup returned null, the cache holds nothing for its key, and the next
\* lookup for the key has called searchVideo again.
C2_Witness ==
    /\ nStarted >= 2
    /\ trk[1] # 0
    /\ trk[2] = trk[1]
    /\ pc[1] = "blank"
    /\ bvidOf[1] = UNDEF
    /\ urlMap[keyOfTrack(trk[1])] = UNDEF
    /\ searchCalls[keyOfTrack(trk[1])] = 2
    /\ pc[2] = "searching"

(***************************************************************************)
(* C3 (as stated): at most one search is outstanding for a cache key.      *)
(***************************************************************************)
C3_OneOutstandingSearchPerKey ==
    \A k \in Keys :
        Cardinality({s \in Sessions : pc[s] = "searching" /\ keyOfTrack(trk[s]) = k}) <= 1

(***************************************************************************)
(* C4: at most one player interval is registered, and it is the one        *)
(* playerIntervalId records.                                               *)
(***************************************************************************)
C4_OneIntervalRecorded ==
    /\ Cardinality(intervals) <= 1
    /\ intervals # {} => intervals = {playerIntervalId}

\* Two runs of initBiliPlayer have registered a timer each, and one timer is
\* registered.
C4_Witness ==
    /\ \A h \in 1..2 : hpc[h] = "inited"
    /\ intervals = {playerIntervalId}

(***************************************************************************)
(* C5 (as stated): from the reset of a new execution until that            *)
(* execution's own init, no interval created for an earlier execution is   *)
(* registered.                                                             *)
(***************************************************************************)
C5_NoIntervalOfEarlierSession ==
    \A h \in intervals :
        hOwner[h] < nStarted
        => \E h2 \in Sessions : hOwner[h2] = nStarted /\ hpc[h2] = "inited"

(***************************************************************************)
(* C6 (as stated): no two executions of reloadVideo are in progress at     *)
(* once.                                                                   *)
(***************************************************************************)
C6_OneReloadAtATime ==
    Cardinality({s \in Sessions : InProgress(s)}) <= 1

(***************************************************************************)
(* C7 (as stated): once every search and transition has completed, the     *)
(* surface source is the one the most recent execution assigned, and the   *)
(* video element driven is the one of that execution's page.               *)
(***************************************************************************)
Quiescent ==
    /\ ~timerArmed
    /\ ~loadPending
    /\ \A s \in Sessions : ~InProgress(s)
    /\ \A h \in Sessions : hpc[h] \notin {"fadeIn", "initWait"}

\* The source the most recent execution selected.
selectedSrc ==
    IF pc[nStarted] = "synced" THEN videoUrlOf(bvidOf[nStarted]) ELSE BlankUrl

C7_LatestLoadWins ==
    (Quiescent /\ nStarted >= 1)
    => /\ src = selectedSrc
       /\ pc[nStarted] = "synced" => ifrVideo = srcBy

(***************************************************************************)
(* C8 (as stated): while the most recent execution has not reached SYNCED  *)
(* (and no earlier one is still in progress), a PlayState or PlayProgress  *)
(* event changes no element's paused state, currentTime or volume.         *)
(***************************************************************************)
C8_TickBeforeSyncedIsNoOp ==
    [][(/\ HostTick
        /\ nStarted >= 1
        /\ pc[nStarted] # "synced"
        /\ \A s \in Sessions : s # nStarted => ~InProgress(s))
       => vid' = vid]_vars

(***************************************************************************)
(* C9 (as stated): once the most recent execution has ended with no        *)
(* candidate or an error and has left the surface transparent with a blank *)
(* source, the surface stays so until the next execution starts, whatever  *)
(* the executions before it did.                                           *)
(***************************************************************************)
C9_BlankStaysBlank ==
    [][(/\ nStarted >= 1
        /\ pc[nStarted] \in {"blank", "failed"}
        /\ \A s \in Sessions : ~InProgress(s)
        /\ opacity = 0
        /\ src = BlankUrl
        /\ nStarted' = nStarted)
       => (opacity' = 0 /\ src' = BlankUrl)]_vars

(***************************************************************************)
(* C10 (as stated): a failure while handling a Load event, the player      *)
(* elements not being found included, is resolved as the no-candidate      *)
(* outcome: an execution whose page has loaded without the player elements *)
(* does not stay waiting, it has a step to take.                           *)
(***************************************************************************)
ReloadStep(s) ==
    \/ SwitchSource(s)
    \/ BlankSource(s)
    \/ HandlerFadeInDone(s)
    \/ InitBiliPlayerDone(s)
    \/ \E p \in BOOLEAN : VideoFound(s, p)

C10_MissingElementResolved ==
    \A s \in Sessions :
        (/\ pc[s] \in {"switching", "waitVideo"}
         /\ srcBy = s
         /\ ~loadPending
         /\ ~docPlayer)
        => ENABLED ReloadStep(s)

(***************************************************************************)
(* C11 (as stated): while config.enable is false, no step calls            *)
(* searchVideo and no step changes the surface (source, opacity) or the    *)
(* video element.                                                          *)
(***************************************************************************)
C11_DisabledDoesNothing ==
    [][~config.enable
       => /\ searchCalls' = searchCalls
          /\ src' = src
          /\ opacity' = opacity
          /\ ifrVideo' = ifrVideo]_vars

(***************************************************************************)
(* C12: the steps of a transition to a candidate happen in this order for  *)
(* one execution: opacity 0 and the wait of fadeOut, the source swap, the  *)
(* load signal, opacity 1 and the wait of fadeIn, the call of the player   *)
(* init, and only after that call has returned the video element is looked *)
(* up, assigned to ifrVideo and muted.                                     *)
(***************************************************************************)
C12_StepOrder(s) ==
    /\ pc[s] \in {"idle", "searching", "fadeOut"}
           => \A h \in Sessions : hOwner[h] = s => hpc[h] = "none"
    /\ pc[s] = "switching"
           => \A h \in Sessions : hOwner[h] = s => hpc[h] \in {"none", "fadeIn", "initWait"}
    /\ pc[s] \in {"waitVideo", "synced"}
           => \E h \in Sessions : hOwner[h] = s /\ hpc[h] \in {"skipped", "inited"}

C12_StepEffect(s) ==
    /\ (pc[s] # "fadeOut" /\ pc'[s] = "fadeOut") => opacity' = 0
    /\ (pc[s] # "switching" /\ pc'[s] = "switching")
           => (pc[s] = "fadeOut" /\ src' = videoUrlOf(bvidOf[s]) /\ loadPending')
    /\ \A h \in Sessions :
           (hpc[h] = "none" /\ hpc'[h] # "none" /\ hOwner'[h] = s)
               => /\ pc[s] \notin {"idle", "searching", "fadeOut"}
                  /\ loadPending
                  /\ hpc'[h] = "fadeIn"
                  /\ opacity' = 1
    /\ (pc[s] # "waitVideo" /\ pc'[s] = "waitVideo")
           => /\ pc[s] = "switching"
              /\ \E h \in Sessions : /\ hOwner[h] = s
                                      /\ hpc[h] \in {"fadeIn", "initWait"}
                                      /\ hpc'[h] \in {"skipped", "inited"}
    /\ (pc[s] # "synced" /\ pc'[s] = "synced")
           => (pc[s] = "waitVideo" /\ ifrVideo' # 0 /\ vid'.volume = 0)

C12_TransitionOrder ==
    /\ [](\A s \in Sessions : C12_StepOrder(s))
    /\ [][\A s \in Sessions : C12_StepEffect(s)]_vars

\* An execution has gone through the whole transition and is SYNCED.
C12_Witness ==
    \E s, h \in Sessions :
        /\ pc[s] = "synced"
        /\ hpc[h] = "inited"
        /\ hOwner[h] = s
        /\ ifrVideo = s
        /\ src = videoUrlOf(bvidOf[s])
        /\ opacity = 1

(***************************************************************************)
(* C13: the video is muted under reconciliation: the step that enters      *)
(* SYNCED sets the volume to 0, and after every PlayProgress event handled *)
(* with a video element resolved the volume is 0, whatever it was before.  *)
(***************************************************************************)
C13_AlwaysMuted ==
    [][/\ \A s \in Sessions :
              (pc[s] # "synced" /\ pc'[s] = "synced") => vid'.volume = 0
       /\ ((\E progress \in TickProgress, a \in AudioPausedValues :
                TickPlayProgress(progress, a)) /\ ifrVideo # 0)
              => vid'.volume = 0]_vars

\* Another party had turned the volume up, and the tick has muted the
\* element again.
C13_Witness ==
    /\ lastEvent.kind = "progress"
    /\ lastEvent.resolved
    /\ lastEvent.before.volume = 1
    /\ vid.volume = 0

(***************************************************************************)
(* C14: a PlayProgress event handled with a video element resolved sets    *)
(* currentTime to the host progress when they differ by more than 0.3 s (3 *)
(* tenths), and leaves currentTime unchanged when they differ by 0.3 s or  *)
(* less.                                                                   *)
(***************************************************************************)
C14_ResyncAboveThreshold ==
    [][\A progress \in TickProgress, a \in AudioPausedValues :
          (TickPlayProgress(progress, a) /\ ifrVideo # 0)
          => /\ Abs(vid.time - progress) > 3 => vid'.time = progress
             /\ Abs(vid.time - progress) <= 3 => vid'.time = vid.time]_vars

\* A tick 0.3 s ahead of the element has left currentTime unchanged.
C14_Witness ==
    /\ lastEvent.kind = "progress"
    /\ lastEvent.resolved
    /\ lastEvent.before.time = 100
    /\ lastEvent.arg = 103
    /\ vid.time = 100

C16_PlayStateFollowsHost ==
    [][\A st \in {0, 1} :
          TickPlayState(st)
          => IF ifrVideo = 0
             THEN vid' = vid
             ELSE vid' = [vid EXCEPT !.paused = (st = 0)]]_vars

\* A paused element has been set playing by a PlayState event with state 1.
C16_Witness ==
    /\ lastEvent.kind = "state"
    /\ lastEvent.resolved
    /\ lastEvent.arg = 1
    /\ lastEvent.before.paused
    /\ ~vid.paused

(***************************************************************************)
(* C17: the duration filter, enabled, on candidates whose durations are    *)
(* strings: the result is the first candidate in the original order whose  *)
(* seconds s satisfy floor(s / 60) = floor(floor(ms / 1000) / 60) and      *)
(* |s - floor(ms / 1000)| < 5, and it is empty when there is none.         *)
(***************************************************************************)
C17_Accepts(video, audioDuration) ==
    LET sec == durationSeconds(video.duration.v)
    IN  /\ ~sec.nan
        /\ sec.v \div 60 = (audioDuration \div 1000) \div 60
        /\ Abs(sec.v - (audioDuration \div 1000)) < 5

C17_FirstAccepted(videos, audioDuration) ==
    IF \E i \in 1..Len(videos) : C17_Accepts(videos[i], audioDuration)
    THEN << videos[CHOOSE i \in 1..Len(videos) :
                      /\ C17_Accepts(videos[i], audioDuration)
                      /\ \A k \in 1..(i - 1) : ~C17_Accepts(videos[k], audioDuration)] >>
    ELSE << >>

C18_DurationFilterDisabled ==
    (fcall.fn = "filterByDuration" /\ ~fcall.enableFilter)
    => /\ ~fret.throws
       /\ fret.videos = IF Len(fcall.videos) = 0 THEN << >> ELSE << fcall.videos[1] >>

\* Two candidates, the first with a duration the enabled filter would not
\* accept: the disabled filter has returned the first alone.
C18_Witness ==
    /\ fcall.fn = "filterByDuration"
    /\ ~fcall.enableFilter
    /\ Len(fcall.videos) = 2
    /\ fcall.videos[1].duration.t = "string"
    /\ ~C17_Accepts(fcall.videos[1], fcall.audioDuration)
    /\ fret.videos = << fcall.videos[1] >>

(***************************************************************************)
(* C19: the title filter keeps, for a track title that is not blank, the   *)
(* candidates whose similarity score is at least 0.5, in their original    *)
(* order, and returns its input unchanged for an empty or blank title.     *)
(***************************************************************************)
C19_ScoreAtLeastHalf(video) ==
    RatGE(calculateSimilarity(video.title, fcall.songName, fcall.artistName), Rat(1, 2))

C19_TitleFilter ==
    fcall.fn = "filterByTitle"
    => IF \A k \in 1..Len(fcall.songName) : IsSpace(fcall.songName[k])
       THEN fret = fcall.videos
       ELSE fret = SelectSeq(fcall.videos, C19_ScoreAtLeastHalf)

\* The first candidate scores below 0.5 and is dropped; the second scores
\* 0.5 and is kept.
C19_Witness ==
    /\ fcall.fn = "filterByTitle"
    /\ Len(fcall.videos) = 2
    /\ Len(fcall.songName) > 0
    /\ ~C19_ScoreAtLeastHalf(fcall.videos[1])
    /\ C19_ScoreAtLeastHalf(fcall.videos[2])
    /\ ~RatGT(calculateSimilarity(fcall.videos[2].title, fcall.songName,
                                  fcall.artistName), Rat(1, 2))
    /\ fret = << fcall.videos[2] >>

(***************************************************************************)
(* C20: the play-count filter returns its input unchanged for threshold    *)
(* -1, and otherwise keeps the candidates whose playCount is at least the  *)
(* threshold; when candidates reach the stage and none is kept, the lookup *)
(* returns null.                                                           *)
(***************************************************************************)
C20_AtLeast(video) == video.playCount >= fcall.playThreshold

C20_StageInput(t, r, cfg) ==
    filterByDuration(
        filterByTitle(parseSearchResults(SearchResponses[r]), Tracks[t].name,
                      Tracks[t].artist),
        Tracks[t].duration, cfg.filterLength)

C20_NoneKept(durationFiltered, playThreshold) ==
    /\ ~durationFiltered.throws
    /\ Len(durationFiltered.videos) > 0
    /\ playThreshold # -1
    /\ \A k \in 1..Len(durationFiltered.videos) :
           durationFiltered.videos[k].playCount < playThreshold

C20_PlayCountFilter ==
    /\ fcall.fn = "filterByPlayCount"
       => IF fcall.playThreshold = -1
          THEN fret = fcall.videos
          ELSE fret = SelectSeq(fcall.videos, C20_AtLeast)
    /\ (/\ fcall.fn = "lookup"
        /\ C20_NoneKept(C20_StageInput(fcall.track, fcall.response, fcall.cfg),
                        fcall.cfg.filterPlay))
       => fret = ResNull

\* At threshold 5000 the candidate with 4999 plays is dropped and the one
\* with 5000 is kept.
C20_Witness ==
    /\ fcall.fn = "filterByPlayCount"
    /\ fcall.playThreshold = 5000
    /\ Len(fcall.videos) = 2
    /\ fcall.videos[1].playCount = 4999
    /\ fcall.videos[2].playCount = 5000
    /\ fret = << fcall.videos[2] >>

\* A lookup whose candidates all fall below the threshold has returned null.
C20_LookupNull ==
    /\ fcall.fn = "lookup"
    /\ C20_NoneKept(C20_StageInput(fcall.track, fcall.response, fcall.cfg),
                    fcall.cfg.filterPlay)
    /\ fret = ResNull

(***************************************************************************)
(* C21: what a lookup that missed the cache returns is the bvid of the     *)
(* candidate of the search response chosen by the title filter, then the   *)
(* duration stage, then the play-count filter, in that order, and null     *)
(* when there is no such candidate; the example of two results for a       *)
(* 225000 ms track gives BV1.                                              *)
(***************************************************************************)
C21_PassesTitle(video, track) ==
    \/ \A k \in 1..Len(track.name) : IsSpace(track.name[k])
    \/ RatGE(calculateSimilarity(video.title, track.name, track.artist), Rat(1, 2))

C21_Accepts(video, track) ==
    video.duration.t = "string" /\ C17_Accepts(video, track.duration)

\* Candidate i is the one the duration stage passes on: with the filter on,
\* the first of the title-matching candidates that the stage accepts; with
\* the filter off, the first of the title-matching candidates.
C21_PassesDuration(videos, i, track, cfg) ==
    IF cfg.filterLength
    THEN /\ C21_Accepts(videos[i], track)
         /\ \A k \in 1..(i - 1) :
                C21_PassesTitle(videos[k], track) => ~C21_Accepts(videos[k], track)
    ELSE \A k \in 1..(i - 1) : ~C21_PassesTitle(videos[k], track)

C21_PassesPlay(video, cfg) ==
    cfg.filterPlay = -1 \/ video.playCount >= cfg.filterPlay

C21_Selected(videos, i, track, cfg) ==
    /\ C21_PassesTitle(videos[i], track)
    /\ C21_PassesDuration(videos, i, track, cfg)
    /\ C21_PassesPlay(videos[i], cfg)

C21_ResultOf(videos, track, cfg, res) ==
    /\ res.kind = "id"
           => \E i \in 1..Len(videos) : /\ C21_Selected(videos, i, track, cfg)
                                         /\ res.bvid = videos[i].bvid
    /\ res.kind = "null"
           => \A i \in 1..Len(videos) : ~C21_Selected(videos, i, track, cfg)

C21_EndToEndSelection ==
    fcall.fn = "lookup"
    => /\ C21_ResultOf(parseSearchResults(SearchResponses[fcall.response]),
                       Tracks[fcall.track], fcall.cfg, fret)
       /\ (/\ fcall.track = 1
           /\ fcall.response = 4
           /\ fcall.cfg.filterLength
           /\ fcall.cfg.filterPlay = 5000)
          => fret = ResId("BV1")

\* The lookup of the example has returned BV1.
C21_Witness ==
    /\ fcall.fn = "lookup"
    /\ fcall.track = 1
    /\ Tracks[1].duration = 225000
    /\ fcall.response = 4
    /\ Len(SearchResponses[4].result) = 2
    /\ fcall.cfg.filterLength
    /\ fcall.cfg.filterPlay = 5000
    /\ fret = ResId("BV1")

(***************************************************************************)
(* C22: the seconds parsed from a duration string split on ':': two        *)
(* segments of digits give minutes*60+seconds, three give                  *)
(* hours*3600+minutes*60+seconds, any other number of segments gives 0;    *)
(* "3:45" is 225, "1:02:03" is 3723, "" and "abc" are 0.                   *)
(***************************************************************************)
\* The number a string of decimal digits denotes
RECURSIVE C22_Decimal(_)
C22_Decimal(s) ==
    IF s = << >> THEN 0
    ELSE 10 * C22_Decimal(SubSeq(s, 1, Len(s) - 1)) + DigitVal(s[Len(s)])

C22_AllDigits(s) == s # << >> /\ \A k \in 1..Len(s) : IsDigit(s[k])

C22_SegmentCount(s) == Cardinality({k \in 1..Len(s) : s[k] = ":"}) + 1

C22_Expected(s, parts) ==
    IF C22_SegmentCount(s) = 2
    THEN 60 * C22_Decimal(parts[1]) + C22_Decimal(parts[2])
    ELSE 3600 * C22_Decimal(parts[1]) + 60 * C22_Decimal(parts[2]) + C22_Decimal(parts[3])

C22_ParsedAs(s, seconds) ==
    /\ C22_SegmentCount(s) \notin {2, 3} => seconds = Num(0)
    /\ (/\ C22_SegmentCount(s) \in {2, 3}
        /\ \A k \in 1..Len(split(s, ":")) : C22_AllDigits(split(s, ":")[k]))
       => seconds = Num(C22_Expected(s, split(s, ":")))
    /\ s = << "3", ":", "4", "5" >> => seconds = Num(225)
    /\ s = << "1", ":", "0", "2", ":", "0", "3" >> => seconds = Num(3723)
    /\ s = << >> => seconds = Num(0)
    /\ s = << "a", "b", "c" >> => seconds = Num(0)

C22_DurationParsing ==
    (fcall.fn = "durationSeconds" /\ fcall.duration.t = "string")
    => (~fret.throws /\ C22_ParsedAs(fcall.duration.v, fret.seconds))

\* "1:02:03" has been parsed as 3723.
C22_Witness ==
    /\ fcall.fn = "durationSeconds"
    /\ fcall.duration = JStr(<< "1", ":", "0", "2", ":", "0", "3" >>)
    /\ fret.seconds = Num(3723)

(***************************************************************************)
(* C23: duration parsing is total: for every duration value of a candidate *)
(* the parsed result is an integer >= 0, parsing does not throw, and a     *)
(* lookup is not aborted by a malformed duration.                          *)
(***************************************************************************)
C23_ParsingTotal ==
    /\ fcall.fn = "durationSeconds"
           => (~fret.throws /\ ~fret.seconds.nan /\ fret.seconds.v >= 0)
    /\ fcall.fn = "lookup" => fret.kind # "throw"

(***************************************************************************)
(* C24: the base similarity of two strings is the length of a longest      *)
(* common subsequence of the lower-cased strings divided by the larger of  *)
(* the two lengths; it lies in [0,1], is 1 for strings that are equal      *)
(* after lower-casing and not empty, and is 0 (not NaN) when either string *)
(* is empty; the score of "abcdef" and "abc" is 3/6.                       *)
(***************************************************************************)
\* The length of a longest common subsequence, by its recursive definition
RECURSIVE C24_Lcs(_, _)
C24_Lcs(a, b) ==
    IF a = << >> \/ b = << >> THEN 0
    ELSE IF Head(a) = Head(b) THEN 1 + C24_Lcs(Tail(a), Tail(b))
    ELSE Max(C24_Lcs(Tail(a), b), C24_Lcs(a, Tail(b)))

C24_ScoreOf(a, b, score) ==
    /\ score.d > 0
    /\ 0 <= score.n /\ score.n <= score.d
    /\ (a = << >> \/ b = << >>) => score.n = 0
    /\ (a # << >> /\ b # << >>)
           => score.n * Max(Len(a), Len(b))
                  = C24_Lcs(toLowerCase(a), toLowerCase(b)) * score.d
    /\ (a # << >> /\ toLowerCase(a) = toLowerCase(b)) => score.n = score.d
    /\ (a = << "a", "b", "c", "d", "e", "f" >> /\ b = << "a", "b", "c" >>)
           => score.n * 6 = 3 * score.d

C24_BaseSimilarity ==
    fcall.fn = "calculateBaseSimilarity" => C24_ScoreOf(fcall.str1, fcall.str2, fret)

\* Two strings that differ in case only have scored 1.
C24_Witness ==
    /\ fcall.fn = "calculateBaseSimilarity"
    /\ fcall.str1 # fcall.str2
    /\ toLowerCase(fcall.str1) = toLowerCase(fcall.str2)
    /\ fret.n = fret.d
    /\ fret.d > 0

(***************************************************************************)
(* C25: a search response whose data.result is absent or not an array is   *)
(* parsed to the empty candidate list; the lookup returns null, raises no  *)
(* error and writes nothing to the cache.                                  *)
(***************************************************************************)
C25_NoResultTolerated ==
    (/\ fcall.fn = "lookup"
     /\ SearchResponses[fcall.response].kind \in {"noresult", "notarray"})
    => /\ parseSearchResults(SearchResponses[fcall.response]) = << >>
       /\ fret = ResNull
       /\ \A k \in Keys : urlMap[k] = UNDEF

\* A lookup whose search was answered without a result array has returned
\* null after its one search.
C25_Witness ==
    /\ fcall.fn = "lookup"
    /\ SearchResponses[fcall.response].kind = "notarray"
    /\ searchCalls[keyOfTrack(fcall.track)] = 1
    /\ fret = ResNull
    /\ \A k \in Keys : urlMap[k] = UNDEF

(***************************************************************************)
(* C26: the search request of a lookup that missed the cache carries the   *)
(* keyword URL-encoded (no character with a meaning in a query string is   *)
(* left in it) and pins the order parameter; a lookup sends one request.   *)
(***************************************************************************)
C26_SearchRequest ==
    /\ fcall.fn = "searchVideo"
           => /\ "keyword" \in fret.params
              /\ \A k \in 1..Len(fret.keyword) :
                     fret.keyword[k] \notin {" ", "&", "=", "?", "#", "+", "/", ":"}
              /\ "order" \in fret.params
    /\ fcall.fn = "lookup" => searchCalls[keyOfTrack(fcall.track)] = 1

(***************************************************************************)
(* C27: in runs where the init of the first execution is in flight when   *)
(* the next Load event resets the player state: when the onload handler of *)
(* the page the latest execution has loaded calls the player init, the     *)
(* init is executed and not skipped at the playerInitialized guard (or, at *)
(* the least, the timer of an init is registered in that page already).    *)
(***************************************************************************)
C27_InitAfterResetRuns ==
    [][\A h \in Sessions :
          (/\ HandlerFadeInDone(h)
           /\ hOwner[h] = h
           /\ srcBy = h
           /\ nStarted = h
           /\ ~loadPending)
          => (hpc'[h] = "initWait" \/ playerIntervalId \in intervals)]_vars

(***************************************************************************)
(* C28: every started execution of reloadVideo completes.  Stated on what  *)
(* a finite run shows: an execution that waits for the promise of its      *)
(* switchUrl always has something pending that will resolve it, the load   *)
(* signal for its own onload handler or a run of that handler; also when a *)
(* later execution swaps the source before the load signal has arrived.    *)
(***************************************************************************)
C28_SwitchCanResolve(s) ==
    \/ loadPending /\ onloadOwner = s
    \/ \E h \in Sessions : hOwner[h] = s /\ hpc[h] \in {"fadeIn", "initWait"}

C28_EveryReloadCompletes ==
    \A s \in Sessions : pc[s] = "switching" => C28_SwitchCanResolve(s)

(***************************************************************************)
(* C29: a PlayProgress event handled with a video element resolved calls   *)
(* play() on it when the host audio is observed unpaused, also when the    *)
(* element was paused before, and calls no play() (the element stays       *)
(* paused or playing as it was) when the host audio is paused or its state *)
(* is not available.                                                       *)
(***************************************************************************)
C29_TickReassertsPlay ==
    [][\A progress \in TickProgress, a \in AudioPausedValues :
          (TickPlayProgress(progress, a) /\ ifrVideo # 0)
          => /\ a = "false" => ~vid'.paused
             /\ a # "false" => vid'.paused = vid.paused]_vars

\* A PlayState event had paused the element, and the tick that followed,
\* with the host audio unpaused, has set it playing.
C29_Witness ==
    /\ lastEvent.kind = "progress"
    /\ lastEvent.resolved
    /\ lastEvent.afterPause
    /\ lastEvent.before.paused
    /\ ~vid.paused

(***************************************************************************)
(* C30: the composite score of a title against a track title and an artist *)
(* name.  With base and artistSim the base similarities of the cleaned     *)
(* title to the lower-cased song name and artist name, and combined = base, *)
(* or max(base, (base + artistSim) / 2) when artistSim > 0.3: the score is  *)
(* max(combined, 0.8) when the cleaned title contains the song name; else  *)
(* max(combined, 0.7) when the artist is not empty and the cleaned title   *)
(* contains the artist name with "official" removed and trimmed; else      *)
(* combined.  It never exceeds 1, and a title that shares no character     *)
(* with the song name and does not contain the artist name scores below    *)
(* 0.5.                                                                    *)
(***************************************************************************)
C30_RatEq(a, b) == a.d > 0 /\ b.d > 0 /\ a.n * b.d = b.n * a.d

C30_Combined(base, artistSim) ==
    IF artistSim.n * 10 > 3 * artistSim.d
    THEN (IF 2 * base.n * artistSim.d >= base.n * artistSim.d + artistSim.n * base.d
          THEN base
          ELSE Rat(base.n * artistSim.d + artistSim.n * base.d, 2 * base.d * artistSim.d))
    ELSE base

C30_ContainsArtist(clean, artist) ==
    /\ artist # << >>
    /\ includes(clean, trim(replaceFirst(artist, << "o", "f", "f", "i", "c", "i", "a", "l" >>)))

C30_SharesCharacter(title, song) ==
    \E i \in 1..Len(title), k \in 1..Len(song) : title[i] = song[k]

C30_ScoreOf(score, clean, song, artist, combined) ==
    /\ score.d > 0 /\ score.n <= score.d
    /\ includes(clean, song)
           => (RatGE(score, Rat(8, 10)) /\ C30_RatEq(score, RatMax(combined, Rat(8, 10))))
    /\ (~includes(clean, song) /\ C30_ContainsArtist(clean, artist))
           => (RatGE(score, Rat(7, 10)) /\ C30_RatEq(score, RatMax(combined, Rat(7, 10))))
    /\ (~includes(clean, song) /\ ~C30_ContainsArtist(clean, artist))
           => C30_RatEq(score, combined)
    /\ (~C30_SharesCharacter(clean, song) /\ ~C30_ContainsArtist(clean, artist))
           => (~RatGE(score, Rat(1, 2)) /\ ~titleMatch(score))

C30_CompositeScore ==
    (/\ fcall.fn = "calculateSimilarity"
     /\ fcall.videoTitle # << >>
     /\ fcall.songName # << >>)
    => C30_ScoreOf(fret, cleanTitleOf(fcall.videoTitle), toLowerCase(fcall.songName),
                   toLowerCase(fcall.artistName),
                   C30_Combined(
                       calculateBaseSimilarity(cleanTitleOf(fcall.videoTitle),
                                               toLowerCase(fcall.songName)),
                       IF fcall.artistName = << >> THEN Rat(0, 1)
                       ELSE calculateBaseSimilarity(cleanTitleOf(fcall.videoTitle),
                                                    toLowerCase(fcall.artistName))))

\* A title that shares no character with the song name and does not contain
\* the artist name, but resembles it, has scored above 0 and below 0.5.
C30_Witness ==
    /\ fcall.fn = "calculateSimilarity"
    /\ fcall.videoTitle # << >>
    /\ fcall.songName # << >>
    /\ ~C30_SharesCharacter(cleanTitleOf(fcall.videoTitle), toLowerCase(fcall.songName))
    /\ ~C30_ContainsArtist(cleanTitleOf(fcall.videoTitle), toLowerCase(fcall.artistName))
    /\ fret.n > 0
    /\ ~RatGE(fret, Rat(1, 2))

(***************************************************************************)
(* C31: the play-count filter sees only the one candidate the duration     *)
(* stage passes on.  A lookup that missed the cache returns an id exactly  *)
(* when that candidate (the first duration match, or the first title match *)
(* with filter-length off) has a playCount of at least the threshold or    *)
(* the threshold is -1; the id is that candidate's, and a later candidate  *)
(* that passes all three filters is not selected in its place.             *)
(***************************************************************************)
\* The duration stage ran to its end over the title-matching candidates.
C31_StageCompletes(videos, track, cfg) ==
    cfg.filterLength
    => \A k \in 1..Len(videos) :
           C21_PassesTitle(videos[k], track) => videos[k].duration.t = "string"

\* Candidate i is the one candidate the duration stage hands on.
C31_Chosen(videos, i, track, cfg) ==
    /\ C31_StageCompletes(videos, track, cfg)
    /\ C21_PassesTitle(videos[i], track)
    /\ C21_PassesDuration(videos, i, track, cfg)

C31_ResultOf(videos, track, cfg, res) ==
    /\ res.kind = "id"
       <=> \E i \in 1..Len(videos) : /\ C31_Chosen(videos, i, track, cfg)
                                     /\ C21_PassesPlay(videos[i], cfg)
    /\ \A i \in 1..Len(videos) :
           C31_Chosen(videos, i, track, cfg)
           => IF C21_PassesPlay(videos[i], cfg)
              THEN res = ResId(videos[i].bvid)
              ELSE res = ResNull

C31_PlayFilterSeesOneCandidate ==
    fcall.fn = "lookup"
    => C31_ResultOf(parseSearchResults(SearchResponses[fcall.response]),
                    Tracks[fcall.track], fcall.cfg, fret)

\* The first candidate is the duration stage's choice and has 1 play; the
\* second passes the title filter, the duration test and the threshold
\* 5000, and the lookup has returned null.
C31_LaterCandidate(videos, track, cfg) ==
    /\ Len(videos) = 2
    /\ C31_Chosen(videos, 1, track, cfg)
    /\ ~C21_PassesPlay(videos[1], cfg)
    /\ C21_PassesTitle(videos[2], track)
    /\ C21_Accepts(videos[2], track)
    /\ C21_PassesPlay(videos[2], cfg)

C31_Witness ==
    /\ fcall.fn = "lookup"
    /\ fcall.cfg.filterLength
    /\ fcall.cfg.filterPlay = 5000
    /\ C31_LaterCandidate(parseSearchResults(SearchResponses[fcall.response]),
                          Tracks[fcall.track], fcall.cfg)
    /\ fret = ResNull

(***************************************************************************)
(* C32: distinct (title, artist) pairs never share a cache entry.  When a  *)
(* lookup for a track is answered from the cache, the id it returns was    *)
(* returned to (and cached by) an earlier lookup for a track with the same *)
(* title and the same artist.                                              *)
(***************************************************************************)
C32_SamePair(t, u) ==
    /\ u # 0
    /\ Tracks[u].name = Tracks[t].name
    /\ Tracks[u].artist = Tracks[t].artist

C32_NoSharedEntry ==
    [][\A t \in 1..Len(Tracks) :
          (StartsLookup(t) /\ cacheHit(urlMap, keyOfTrack(t)))
          => \E s \in 1..nStarted :
                 /\ C32_SamePair(t, trk[s])
                 /\ bvidOf[s] = urlMap[keyOfTrack(t)]]_vars

(***************************************************************************)
(* C33: cache entries are write-once.  Once urlMap holds an id for a key,  *)
(* no step replaces that entry by a different value or removes it, however *)
(* the lookups for the key overlap.                                        *)
(***************************************************************************)
C33_WriteOnce ==
    [][\A k \in Keys : Truthy(urlMap[k]) => urlMap'[k] = urlMap[k]]_vars

(***************************************************************************)
(* C34: the PlayState and PlayProgress handlers leave the surface source,  *)
(* the surface opacity, the cache, playerInitialized and playerIntervalId  *)
(* as they are; and the surface source is written only by switchUrl and by *)
(* the no-candidate and error paths of reloadVideo.                        *)
(***************************************************************************)
C34_TickFrame ==
    [][/\ HostTick => UNCHANGED << src, srcBy, opacity, urlMap, playerInitialized,
                                   playerIntervalId >>
       /\ (src' # src \/ srcBy' # srcBy)
          => \E s \in Sessions : SwitchSource(s) \/ BlankSource(s)]_vars

\* A PlayProgress event has muted the video element of the page on show:
\* the surface still shows the selected video at full opacity, the player
\* is initialised with its timer recorded, and the cache holds the id.
C34_Witness ==
    /\ ifrVideo # 0
    /\ vid.volume = 0
    /\ srcBy # 0
    /\ Truthy(bvidOf[srcBy])
    /\ src = videoUrlOf(bvidOf[srcBy])
    /\ opacity = 1
    /\ playerInitialized
    /\ playerIntervalId # 0
    /\ urlMap[keyOfTrack(trk[srcBy])] = bvidOf[srcBy]

(***************************************************************************)
(* C35: logger level gating.  A message of level L is written exactly     *)
(* when log-enable is true and L is at or above the configured log-level   *)
(* in the order debug < info < warn < error; so a debug message is         *)
(* suppressed when log-level is info, warn or error.                       *)
(***************************************************************************)
\* The position of a level in the order debug < info < warn < error
C35_Rank(level) ==
    CASE level = "debug" -> 1
      [] level = "info"  -> 2
      [] level = "warn"  -> 3
      [] level = "error" -> 4

C35_LevelGating ==
    (fcall.fn = "log" /\ fcall.logLevel # "")
    => (fret <=> (fcall.logEnable /\ C35_Rank(fcall.level) >= C35_Rank(fcall.logLevel)))

(***************************************************************************)
(* C36: the LogManager loses no entry.  Every entry log() appended is      *)
(* still in the buffer or has been included in a successful file write or  *)
(* in the fallback store: no entry leaves the buffer unwritten, also not   *)
(* one appended while a flush awaits its file operations.                  *)
(***************************************************************************)
C36_NoEntryLost ==
    \A e \in 1..nLogged : e \in EntriesOf(logBuffer) \/ e \in written

(***************************************************************************)
(* C37: the fallback of the LogManager.  When the file write of a flush    *)
(* fails (no fs API, an fs call throws, or writeFileText returns false),   *)
(* the text of the buffered entries is saved in the localStorage fallback  *)
(* store, flushLogs does not reject, and isWriting is false afterwards.    *)
(***************************************************************************)
C37_FallbackOnFailure ==
    [][\A f \in 1..MaxFlushes :
          (~flushes[f].failed /\ flushes'[f].failed)
          => /\ flushes'[f].pc # "rejected"
             /\ EntriesOf(flushes'[f].logText) \subseteq EntriesOf(logStore')
             /\ ~isWriting']_vars

(***************************************************************************)
(* C38: the LogManager never runs two flushes at once.  At most one call   *)
(* of flushLogs is between setting isWriting and its finally block; a call *)
(* made meanwhile returns without a file operation; and isWriting is set   *)
(* exactly while a flush is in that stretch, so it is false again whenever *)
(* a flush has ended.                                                      *)
(***************************************************************************)
\* Call f of flushLogs awaits one of its file operations.
C38_Writing(f) == flushes[f].pc \in {"exists", "read", "write"}

C38_OneFlushAtATime ==
    /\ Cardinality({f \in 1..MaxFlushes : C38_Writing(f)}) <= 1
    /\ isWriting <=> \E f \in 1..MaxFlushes : C38_Writing(f)
    /\ \A f, g \in 1..MaxFlushes :
           (f < g /\ C38_Writing(f)) => flushes[g].pc \in {"none", "returned"}

\* A flush awaits writeFileText; a later call of flushLogs, made with
\* logging enabled and entries in the buffer, has returned at once.
C38_Witness ==
    /\ enableLog
    /\ isWriting
    /\ Len(logBuffer) > 0
    /\ \E f, g \in 1..MaxFlushes :
           /\ f < g
           /\ flushes[f].pc = "write"
           /\ flushes[g].pc = "returned"

====
